---- MODULE Spec2Model ----
(***************************************************************************)
(* A model of panda3d's TransformState (transformState.I, carried in       *)
(* src/pandatool/src/gtk-stats/gtkStatsStripChart.cxx from line 661 on):   *)
(* the interning registry, the factories, the composition caches, the      *)
(* three reference counts and the lazy accessors.  The inline methods are  *)
(* translated from the source; the out-of-line methods they call           *)
(* (return_unique, compose, invert_compose, unref, init_states, the        *)
(* destructor, the do_calc routines), which live in transformState.cxx and *)
(* nodeCachedReferenceCount.I, are modelled from the specification.        *)
(***************************************************************************)
EXTENDS Integers, FiniteSets, Sequences, TLC

\* ------------------------------------------------------------------ bounds

\* Instances (other than the two singletons) that may ever be allocated.
MaxInst == 2
\* Pointers and node references, to all instances together, that the callers
\* and the scene graph may hold at a time.
MaxRefs == 3
\* Cache entries, in all caches together, that compose() and invert_compose()
\* calls may have stored at a time.
MaxEntries == 2
\* Threads that call into the registry at the same time.
MaxThreads == 2

\* The null pointer.
Null == 0
\* The LightReMutex init_states() allocates.
LockObj == Null + 1

\* The two singletons, the instances the callers keep, and the slot of a
\* candidate that its constructor allocates and return_unique() may delete again.
MaxId == MaxInst + 3
Ids == 1 .. MaxId

\* ------------------------------------------------- numeric transform algebra
\* The numeric library is an external dependency.  A transform is abstracted
\* to the affine map x |-> s*x + p over the integers mod 3 (s = 0 is the
\* singular scale), with a rotation r, a shear h and a skew k (a part that
\* cannot be written as pos/hpr/scale/shear), each composing additively mod 2.

Logical(s, p, r, h, k) == [s |-> s, p |-> p, r |-> r, h |-> h, k |-> k]

IdentLogical == Logical(1, 0, 0, 0, 0)

\* LMatrix4 multiplication as compose() uses it: x after y.
Mul(x, y) ==
  Logical((x.s * y.s) % 3, (x.s * y.p + x.p) % 3,
          (x.r + y.r) % 2, (x.h + y.h) % 2, (x.k + y.k) % 2)

\* LMatrix4::invert_from; defined when x.s # 0.
Inv(x) ==
  Logical(x.s, (9 - x.s * x.p) % 3, x.r, x.h, x.k)

\* ------------------------------------------------------- transform values
\* The fields of one TransformState that never change after construction:
\* how it was given (kind, rot) and what it was given.

Value(kind, rot, l, twod) == [kind |-> kind, rot |-> rot, l |-> l, twod |-> twod]

NoValue == Value("none", "none", IdentLogical, FALSE)
\* The identity is the same transform in two and in three dimensions.
IdentityValue == Value("identity", "none", IdentLogical, TRUE)
InvalidValue == Value("invalid", "none", IdentLogical, FALSE)

\* What operator == compares: the transform a value denotes, a 2-d transform
\* being another value than the 3-d transform with the same matrix.
Denote(v) ==
  IF v.kind = "invalid" THEN [invalid |-> TRUE]
  ELSE [l |-> v.l, twod |-> v.twod \/ v.l = IdentLogical]

Equal(v, w) == Denote(v) = Denote(w)

\* ------------------------------------------------------------------ state

VARIABLES
  val,            \* val[i]: the value instance i was constructed with
  alive,          \* the instances that exist (constructed, not yet destroyed)
  next,           \* the next instance to allocate
  ref,            \* ReferenceCount::_ref_count
  nref,           \* NodeReferenceCount::_node_ref_count
  cref,           \* CachedTypedWritableReferenceCount::_cache_ref_count
  cc,             \* _composition_cache: cc[i] is a set of <<key, result>>
  ic,             \* _invert_composition_cache
  states,         \* _states, the registry
  states_lock,    \* _states_lock: Null until init_states() has run
  identity_state, \* _identity_state
  invalid_state,  \* _invalid_state
  held,           \* held[i]: pointers to i the callers hold
  node,           \* the transform the scene graph's node holds by a node reference
  last,           \* the last call and what it returned
  memo,           \* the last compose() call whose operands and result are still held
  flags,          \* flags[i]: the _flags bits instance i has derived since construction
  thr,            \* thr[t]: where thread t is in its call, and what it works on
  owner,          \* the thread that holds _states_lock, or Null
  ninit,          \* how many times init_states() has run
  lock,           \* lock[i]: the thread that holds instance i's _lock, or Null
  cell,           \* cell[i]: the fields of i a derivation has written
  dtor,           \* the build, and the destructors the last call has run
  chart,          \* the GtkStatsStripChart window
  flame,          \* the WinStatsFlameGraph window
  probe           \* one value with its scale and shear written out as vectors

vars == <<val, alive, next, ref, nref, cref, cc, ic, states, states_lock,
          identity_state, invalid_state, held, node, last, memo, flags, thr,
          owner, ninit, lock, cell, dtor, chart, flame, probe>>

\* The graph windows of the statistics viewer and the value whose scale is
\* written out: no method of the registry touches them.
Apart == <<chart, flame, probe>>

\* --------------------------------------------------- the viewer's windows
\* The graph area of a window, in pixels.
XSize == 2
YSize == 1
\* User guide bars a graph may have at a time.
MaxBars == 2
\* WinStatsLabel objects that may ever be constructed.
MaxLabels == 3
\* The largest numerator and denominator of a vertical scale.
MaxScale == 2

\* A height is a rational number <<n, d>> in lowest terms, with d > 0.
RECURSIVE GCD(_, _)
GCD(a, b) == IF b = 0 THEN a ELSE GCD(b, a % b)

Abs(x) == IF x < 0 THEN 0 - x ELSE x

Norm(n, d) ==
  LET g == GCD(Abs(n), Abs(d))
      sg == IF d < 0 THEN 0 - 1 ELSE 1
  IN <<(sg * n) \div g, (sg * d) \div g>>

Leq(r, q) == r[1] * q[2] <= q[1] * r[2]

\* enum DragMode, and the bits of the guide-bar units.
DragModes == {"DM_none", "DM_scale", "DM_sizing", "DM_guide_bar", "DM_new_guide_bar"}
GuideBarUnits == {"GBU_hz", "GBU_ms", "GBU_named", "GBU_show_units"}

\* The collectors the client has defined and their parents; collector 0 is
\* Frame, and Strays are indices the client may not have defined.
Collectors == 0 .. 3
Strays == {2, 3}
ParentOf(c) == IF c = 3 THEN 1 ELSE 0

\* No event has been handled.  op: the handler, x, y: its arguments,
\* set: the modes given to set_drag_mode(), drawn: a redraw was queued,
\* bad: a guide bar that does not exist was to be moved or removed.
NoEvent == [op |-> "none", x |-> 0, y |-> 0, set |-> <<>>, drawn |-> FALSE,
            bad |-> FALSE]

\* PStatGraph's units before the constructor of the window changes them.
DefaultUnits == {"GBU_ms"}

\* GtkStatsStripChart::GtkStatsStripChart.  The constructor leaves
\* _drag_guide_bar as it finds it (garbage); known: the collectors the client
\* data has.
GtkStatsStripChart(collector_index, show_level, unit_name_empty, garbage, known) ==
  [_drag_mode |-> "DM_none", _potential_drag_mode |-> "DM_none",
   _drag_guide_bar |-> garbage, _drag_scale_start |-> <<0, 1>>,
   _user_guide_bars |-> <<>>, _value_height |-> <<1, 1>>,
   _average_mode |-> FALSE, _smooth_check_box |-> FALSE,
   _collector_index |-> collector_index, show_level |-> show_level,
   known |-> known,
   _guide_bar_units |->
     IF show_level
       THEN (IF unit_name_empty THEN {"GBU_named"}
             ELSE {"GBU_named", "GBU_show_units"})
       ELSE DefaultUnits \cup {"GBU_show_units"},
   ev |-> NoEvent]

\* monitor->get_pixel_scale()
PixelScale == 2

\* WinStatsFlameGraph::WinStatsFlameGraph.  _labels: the map, a set of
\* <<collector, label, width of the label>>; width[c]: the width of the
\* last update_label() call for collector c; made, deleted: the WinStatsLabel
\* objects constructed and deleted so far.
WinStatsFlameGraph(collector_index, garbage) ==
  [_drag_mode |-> "DM_none", _potential_drag_mode |-> "DM_none",
   _drag_guide_bar |-> garbage,
   _user_guide_bars |-> <<>>,
   _left_margin |-> PixelScale * 2, _right_margin |-> PixelScale * 2,
   _top_margin |-> PixelScale * 6, _bottom_margin |-> PixelScale * 2,
   _collector_index |-> collector_index, known |-> Collectors,
   _guide_bar_units |-> DefaultUnits \cup {"GBU_show_units"},
   _labels |-> {}, width |-> [c \in Collectors |-> 0], made |-> 0, deleted |-> {},
   ev |-> NoEvent]

\* 1.0f and NEARLY_ZERO(PN_stdfloat), in the units scales are counted in.
ScaleOne == 10
NearlyZero == 2

\* No value is probed.
NoProbe ==
  [kind |-> "none", dec |-> FALSE, hidden |-> <<ScaleOne, ScaleOne, ScaleOne>>,
   _scale |-> <<>>, _shear |-> <<>>, _flags |-> {},
   op |-> "none", yes |-> FALSE, asserted |-> FALSE, out |-> <<>>]

\* The windows before any event, and no value probed.
ApartInit ==
  /\ chart = GtkStatsStripChart(0, FALSE, FALSE, 0 - 1, Collectors)
  /\ flame = WinStatsFlameGraph(0, 0 - 1)
  /\ probe = NoProbe

\* No destructor has run.  ndebug: the build defines NDEBUG; starts[i]: how
\* often the destructor of i was entered; running: the instances inside their
\* destructor; bit: the instances with F_is_destructing set; obs: what
\* is_destructing() returned for the instances inside their destructor, when
\* another destructor was entered and when their own was about to return;
\* nested: a destructor was entered from within another.
NoDtor(n) ==
  [ndebug |-> n, starts |-> [i \in Ids |-> 0], running |-> {}, bit |-> {},
   obs |-> {}, nested |-> FALSE]

\* The heap the methods work on, as one record; each call starts a new
\* record of destructors.
Heap ==
  [val |-> val, alive |-> alive, next |-> next, ref |-> ref, nref |-> nref,
   cref |-> cref, cc |-> cc, ic |-> ic, states |-> states,
   dtor |-> NoDtor(dtor.ndebug)]

\* The heap a method leaves becomes the program's heap.
Commit(H) ==
  \E G \in {H} :
    /\ val' = G.val
    /\ alive' = G.alive
    /\ next' = G.next
    /\ ref' = G.ref
    /\ nref' = G.nref
    /\ cref' = G.cref
    /\ cc' = G.cc
    /\ ic' = G.ic
    /\ states' = G.states
    /\ dtor' = G.dtor
    /\ UNCHANGED Apart

\* ------------------------------------------------------ reference counting

\* ReferenceCount::ref()
RefOnly(H, i) == [H EXCEPT !.ref[i] = @ + 1]

\* ReferenceCount::unref(): false exactly when the count reaches zero.
unref(H, i) == [h |-> [H EXCEPT !.ref[i] = @ - 1], res |-> H.ref[i] - 1 # 0]

cache_ref_only(H, i) == [H EXCEPT !.cref[i] = @ + 1]

cache_unref_only(H, i) == [H EXCEPT !.cref[i] = @ - 1]

node_ref_only(H, i) == [H EXCEPT !.nref[i] = @ + 1]

node_unref_only(H, i) == [H EXCEPT !.nref[i] = @ - 1]

\* NodeCachedReferenceCount::cache_ref(): cache_ref_only() and ref().
NCRC_cache_ref(H, i) == RefOnly(cache_ref_only(H, i), i)

\* NodeCachedReferenceCount::node_ref(): node_ref_only() and ref().
NCRC_node_ref(H, i) == RefOnly(node_ref_only(H, i), i)

\* A slip: the overall count is raised but the cache count is not.
cache_ref_NoCount(H, i) == RefOnly(H, i)

cache_ref(H, i) == NCRC_cache_ref(H, i)

\* A slip: the node count is raised but the overall count is not.
node_ref_NoRef(H, i) == node_ref_only(H, i)

node_ref(H, i) == NCRC_node_ref(H, i)

\* A slip: the node count is dropped but the overall count is not.
do_node_unref_NoUnref(H, i) == [h |-> node_unref_only(H, i), res |-> TRUE]

do_node_unref(H, i) == unref(node_unref_only(H, i), i)

\* A slip: the overall count is dropped but the cache count is not.
do_cache_unref_NoCount(H, i) == unref(H, i)

\* A slip: the cache count is dropped but the overall count is not, so the
\* caller is never told to delete the object.
do_cache_unref_NoUnref(H, i) == [h |-> cache_unref_only(H, i), res |-> TRUE]

do_cache_unref(H, i) == unref(cache_unref_only(H, i), i)

cache_unref(H, i) == do_cache_unref(H, i)

node_unref(H, i) == do_node_unref(H, i)

\* --------------------------------------------------------------- predicates

\* A slip: the wrong singleton is compared.
is_identity_Wrong(i) == i = invalid_state

is_identity(i) == i = identity_state

\* A slip: the wrong singleton is compared.
is_invalid_Wrong(i) == i = identity_state

is_invalid(i) == i = invalid_state

\* ------------------------------------------------------------ destruction

\* Every cache entry there is: m is "c" (composition) or "i" (invert
\* composition), o the owner, k the key (the other operand), r the result.
AllEntries(H) ==
  UNION {{[m |-> "c", o |-> o, k |-> e[1], r |-> e[2]] : e \in H.cc[o]} : o \in Ids}
  \cup
  UNION {{[m |-> "i", o |-> o, k |-> e[1], r |-> e[2]] : e \in H.ic[o]} : o \in Ids}

RemoveEntry(H, e) ==
  IF e.m = "c"
    THEN [H EXCEPT !.cc[e.o] = @ \ {<<e.k, e.r>>}]
    ELSE [H EXCEPT !.ic[e.o] = @ \ {<<e.k, e.r>>}]

\* The entries one step of the lifetime protocol removes for instance i:
\* "own": i's outgoing entries (cache eviction); "dtor": those and the
\* entries of other values keyed by i (the destructor); "result": the
\* entries whose result is i (finalisation by the sweep).
Selected(e, i, which) ==
  CASE which = "own" -> e.o = i
    [] which = "dtor" -> e.o = i \/ e.k = i
    [] OTHER -> e.r = i

RECURSIVE Destruct(_, _), DropEntries(_, _, _)

\* Removes the selected entries one after the other; each removal releases the
\* cache reference the entry held on its result, and a result whose reference
\* count reaches zero is destroyed on the spot (a reentrant destruction).
\* (G names the heap H, evaluated once.)
DropEntries(H, i, which) ==
  CHOOSE R \in
    { LET P == {e \in AllEntries(G) : Selected(e, i, which)} IN
      IF P = {} THEN G
      ELSE LET e == CHOOSE x \in P : TRUE
               u == cache_unref(RemoveEntry(G, e), e.r)
           IN DropEntries(IF u.res THEN u.h ELSE Destruct(u.h, e.r), i, which)
      : G \in {H} } : TRUE

\* A slip: the bit is not set in any build.
set_destructing_Never(H, i) == H

set_destructing(H, i) ==
  IF H.dtor.ndebug THEN H ELSE [H EXCEPT !.dtor.bit = @ \cup {i}]

is_destructing(H, i) ==
  IF H.dtor.ndebug THEN FALSE ELSE i \in H.dtor.bit

\* The destructor of i is entered, possibly from within another.
Entered(H, i) ==
  [H EXCEPT !.dtor.starts[i] = @ + 1,
            !.dtor.nested = @ \/ H.dtor.running # {},
            !.dtor.obs = @ \cup {is_destructing(H, j) : j \in H.dtor.running},
            !.dtor.running = @ \cup {i}]

\* The destructor of i returns and the object is gone.
Gone(H, i) ==
  [H EXCEPT !.dtor.obs = @ \cup {is_destructing(H, i)},
            !.dtor.running = @ \ {i},
            !.dtor.bit = @ \ {i}]

\* ~TransformState: marks itself as destructing, leaves the registry, then
\* removes its cache pointers.
Destruct(H, i) ==
  CHOOSE R \in
    { Gone(DropEntries([G EXCEPT !.alive = @ \ {i}, !.states = @ \ {i}], i, "dtor"), i)
      : G \in {set_destructing(Entered(H, i), i)} } : TRUE

\* ---------------------------------------------------------------- registry

\* new TransformState: a candidate, not yet in the registry.
New(H, v) ==
  [h |-> [H EXCEPT !.val[H.next] = v, !.alive = @ \cup {H.next}, !.next = @ + 1],
   i |-> H.next]

\* The candidate loses to an equal registered instance and is deleted.
Discard(H, c) ==
  [H EXCEPT !.val[c] = NoValue, !.alive = @ \ {c}, !.next = c]

\* return_unique(): the registered instance equal to candidate c, or c itself,
\* from now on registered; an instance that is registered is returned as it is.
return_unique(H, c) ==
  LET found == {i \in H.states : Equal(H.val[i], H.val[c])} IN
  IF c \in H.states THEN [h |-> H, ret |-> c]
  ELSE IF found # {}
    THEN [h |-> Discard(H, c), ret |-> CHOOSE i \in found : TRUE]
    ELSE [h |-> [H EXCEPT !.states = @ \cup {c}], ret |-> c]

\* A slip: a copy that is not registered is returned.
get_unique_Copy(H, c) ==
  LET n == New(H, H.val[c]) IN [h |-> n.h, ret |-> n.i]

get_unique(H, c) == return_unique(H, c)

\* ---------------------------------------------------------------- factories
\* A 3-vector is abstracted to one scalar: LVecBase3(1, 1, 1) is 1.

make_pos_hpr_scale_shear(H, pos, hpr, scale, shear) ==
  LET c == New(H, Value("comp", "hpr", Logical(scale, pos, hpr, shear, 0), FALSE))
  IN return_unique(c.h, c.i)

make_pos_quat_scale_shear(H, pos, quat, scale, shear) ==
  LET c == New(H, Value("comp", "quat", Logical(scale, pos, quat, shear, 0), FALSE))
  IN return_unique(c.h, c.i)

make_mat(H, l) ==
  LET c == New(H, Value("mat", "none", l, FALSE))
  IN return_unique(c.h, c.i)

make_pos_hpr_scale(H, pos, hpr, scale) ==
  make_pos_hpr_scale_shear(H, pos, hpr, scale, 0)

make_pos_quat_scale(H, pos, quat, scale) ==
  make_pos_quat_scale_shear(H, pos, quat, scale, 0)

\* A slip: the default scale is zero.
make_pos_ZeroScale(H, pos) == make_pos_hpr_scale(H, pos, 0, 0)

make_pos(H, pos) == make_pos_hpr_scale(H, pos, 0, 1)

make_hpr(H, hpr) == make_pos_hpr_scale(H, 0, hpr, 1)

make_quat(H, quat) == make_pos_quat_scale(H, 0, quat, 1)

make_pos_hpr(H, pos, hpr) == make_pos_hpr_scale(H, pos, hpr, 1)

make_pos_quat(H, pos, quat) == make_pos_quat_scale(H, pos, quat, 1)

make_scale3(H, scale) == make_pos_hpr_scale(H, 0, 0, scale)

make_shear(H, shear) == make_pos_hpr_scale_shear(H, 0, 0, 1, shear)

\* The 2-d factories.  An LVecBase2 is abstracted to one scalar, as an
\* LVecBase3 is; the candidate is constructed with F_is_2d set.
make_pos_rotate_scale_shear2d(H, pos, rotate, scale, shear) ==
  LET c == New(H, Value("comp", "hpr", Logical(scale, pos, rotate, shear, 0), TRUE))
  IN return_unique(c.h, c.i)

make_pos_rotate_scale2d(H, pos, rotate, scale) ==
  make_pos_rotate_scale_shear2d(H, pos, rotate, scale, 0)

make_pos2d(H, pos) == make_pos_rotate_scale2d(H, pos, 0, 1)

make_rotate2d(H, rotate) == make_pos_rotate_scale2d(H, 0, rotate, 1)

make_pos_rotate2d(H, pos, rotate) == make_pos_rotate_scale2d(H, pos, rotate, 1)

make_scale2d(H, scale) == make_pos_rotate_scale2d(H, 0, 0, scale)

make_shear2d(H, shear) == make_pos_rotate_scale_shear2d(H, 0, 0, 1, shear)

\* A slip: the uniform scale is made by the 3-d factory.
make_scale_3d(H, scale) == make_scale3(H, scale)

\* make_scale(PN_stdfloat): the 3-d uniform scale is mapped to the 2-d version.
make_scale(H, scale) == make_scale2d(H, scale)

\* -------------------------------------------------------------- composition

get_composition_cache_num_entries(H, i) == Cardinality(H.cc[i])

\* A slip: the entries of the composition cache are counted.
get_invert_composition_cache_num_entries_Other(H, i) == Cardinality(H.cc[i])

get_invert_composition_cache_num_entries(H, i) == Cardinality(H.ic[i])

\* The cache is a table of slots, of which a removed entry leaves its own
\* empty; the slot of an entry is the one its key's hash (its address) selects.
NumSlots == MaxId

SlotOf(k) == k - 1

InSlot(cache, n) == {e \in cache : SlotOf(e[1]) = n}

\* SimpleHashMap::get_num_entries
get_num_entries(cache) == Cardinality(cache)

\* SimpleHashMap::get_key: the key in slot n, null for an empty slot.
get_key(cache, n) ==
  IF InSlot(cache, n) = {} THEN Null ELSE (CHOOSE e \in InSlot(cache, n) : TRUE)[1]

\* SimpleHashMap::get_data(n)._result
get_data_result(cache, n) ==
  IF InSlot(cache, n) = {} THEN Null ELSE (CHOOSE e \in InSlot(cache, n) : TRUE)[2]

get_composition_cache_size(H, i) == get_num_entries(H.cc[i])

get_composition_cache_source(H, i, n) == get_key(H.cc[i], n)

\* A slip: the key of the slot is returned.
get_composition_cache_result_Key(H, i, n) == get_key(H.cc[i], n)

get_composition_cache_result(H, i, n) == get_data_result(H.cc[i], n)

get_invert_composition_cache_size(H, i) == get_num_entries(H.ic[i])

get_invert_composition_cache_source(H, i, n) == get_key(H.ic[i], n)

get_invert_composition_cache_result(H, i, n) == get_data_result(H.ic[i], n)

CacheHit(cache, b) == {e \in cache : e[1] = b}

\* A slip: the entry's key is returned for its result.
CacheResult_Key(cache, b) == (CHOOSE e \in CacheHit(cache, b) : TRUE)[1]

\* The result the cache holds for the operand b.
CacheResult(cache, b) == (CHOOSE e \in CacheHit(cache, b) : TRUE)[2]

\* The value of a composition: componentwise when both operands were given
\* by components, as a matrix otherwise.
ComposeValue(l, v, w) ==
  Value(IF v.kind = "mat" \/ w.kind = "mat" THEN "mat" ELSE "comp",
        IF v.kind = "mat" \/ w.kind = "mat" THEN "none" ELSE "quat",
        l, v.twod /\ w.twod)

\* a->compose(b): [h: the heap after, ret: the result, hit: found in the cache]
compose(H, a, b) ==
  IF is_identity(a) THEN [h |-> H, ret |-> b, hit |-> FALSE]
  ELSE IF is_identity(b) THEN [h |-> H, ret |-> a, hit |-> FALSE]
  ELSE IF is_invalid(a) \/ is_invalid(b)
    THEN [h |-> H, ret |-> invalid_state, hit |-> FALSE]
  ELSE IF CacheHit(H.cc[a], b) # {}
    THEN [h |-> H, ret |-> CacheResult(H.cc[a], b), hit |-> TRUE]
  ELSE
    LET c == New(H, ComposeValue(Mul(H.val[a].l, H.val[b].l), H.val[a], H.val[b]))
        u == return_unique(c.h, c.i)
        H2 == [u.h EXCEPT !.cc[a] = @ \cup {<<b, u.ret>>}]
    IN [h |-> cache_ref(H2, u.ret), ret |-> u.ret, hit |-> FALSE]

\* a->invert_compose(b): the inverse of a, composed with b.
invert_compose(H, a, b) ==
  IF is_identity(a) THEN [h |-> H, ret |-> b, hit |-> FALSE]
  ELSE IF is_invalid(a) \/ is_invalid(b)
    THEN [h |-> H, ret |-> invalid_state, hit |-> FALSE]
  ELSE IF CacheHit(H.ic[a], b) # {}
    THEN [h |-> H, ret |-> CacheResult(H.ic[a], b), hit |-> TRUE]
  ELSE IF H.val[a].l.s = 0
    THEN [h |-> cache_ref([H EXCEPT !.ic[a] = @ \cup {<<b, invalid_state>>}],
                          invalid_state),
          ret |-> invalid_state, hit |-> FALSE]
  ELSE
    LET c == New(H, ComposeValue(Mul(Inv(H.val[a].l), H.val[b].l), H.val[a], H.val[b]))
        u == return_unique(c.h, c.i)
        H2 == [u.h EXCEPT !.ic[a] = @ \cup {<<b, u.ret>>}]
    IN [h |-> cache_ref(H2, u.ret), ret |-> u.ret, hit |-> FALSE]

\* A slip: the transform itself is composed with the identity.
get_inverse_Compose(H, a) == compose(H, a, identity_state)

\* A slip: the operands of invert_compose() are exchanged.
get_inverse_Swapped(H, a) == invert_compose(H, identity_state, a)

\* A slip: the transform itself is returned.
get_inverse_Self(H, a) == [h |-> H, ret |-> a, hit |-> FALSE]

\* a->get_inverse(): make_identity() returns the identity singleton.
get_inverse(H, a) == invert_compose(H, a, identity_state)

\* -------------------------------------------------- cache eviction and sweep

\* The ordinary references the counts show: all but the cache's.
Ordinary(H, i) == H.ref[i] - H.cref[i]

\* A value with no ordinary reference left drops its own outgoing entries.
evict(H, i) == DropEntries(H, i, "own")

RECURSIVE FinalizeAll(_, _)
FinalizeAll(H, C) ==
  CHOOSE R \in
    { IF C = {} THEN G
      ELSE LET i == CHOOSE x \in C : TRUE
           IN FinalizeAll(IF i \in G.alive THEN DropEntries(G, i, "result") ELSE G,
                          C \ {i})
      : G \in {H} } : TRUE

\* The values the walk over the zero-ordinary-reference set finalizes.
SweepCandidates(H) ==
  {i \in H.alive : Ordinary(H, i) = 0 /\ H.cc[i] = {} /\ H.ic[i] = {}}

sweep(H) == FinalizeAll(H, SweepCandidates(H))

\* ------------------------------------------------------------------ actions

\* What the last call was and what it returned: x and y its operands or
\* arguments, n0 and n1 the owner's get_composition_cache_num_entries() before
\* and after, e0 and e1 the number of entries in all caches before and after,
\* prev the result the memo holds for the same operands.
NoCall == [op |-> "none", x |-> Null, y |-> Null, z |-> Null, w |-> Null,
           ret |-> Null, n0 |-> 0, n1 |-> 0, e0 |-> 0, e1 |-> 0, prev |-> Null,
           asserted |-> FALSE, yes |-> FALSE, out |-> <<>>]

Call1(op, x, ret) == [NoCall EXCEPT !.op = op, !.x = x, !.ret = ret]

NoMemo == [a |-> Null, b |-> Null, r |-> Null]

\* The references the callers and the scene graph really hold.
GhostOrdinary(i) ==
  held[i] + (IF node = i THEN 1 ELSE 0)
          + (IF i \in {identity_state, invalid_state} THEN 1 ELSE 0)

\* The memo is forgotten once an operand or the result is no longer held.
MemoKept(m, h) ==
  IF m # NoMemo /\ h[m.a] > 0 /\ h[m.b] > 0 /\ h[m.r] > 0 THEN m ELSE NoMemo

Threads == 1 .. MaxThreads

\* A thread that is in no call.
NoThread == [pc |-> "idle", op |-> "none", c |-> Null, v |-> NoValue, ret |-> Null,
             locks |-> <<>>]

Statics == <<states_lock, identity_state, invalid_state, ninit>>

\* The per-instance lock and the fields written under it.
Lazy == <<lock, cell>>

Globals == <<Statics, flags, thr, owner, Lazy>>

RECURSIVE SumTo(_, _)
SumTo(f, n) == IF n = 0 THEN 0 ELSE f[n] + SumTo(f, n - 1)

TotalHeld == SumTo(held, MaxId) + (IF node = Null THEN 0 ELSE 1)

\* A call that returns a counted pointer to r.ret.
Return(r) ==
  /\ TotalHeld < MaxRefs
  /\ \E q \in {r} :
       /\ q.ret \in q.h.alive
       /\ q.h.next <= MaxId
       /\ Commit(RefOnly(q.h, q.ret))
       /\ held' = [held EXCEPT ![q.ret] = @ + 1]
  /\ UNCHANGED <<node, Globals>>

\* An action whose call is not recorded.
Quiet(A) == A /\ UNCHANGED <<last, memo>>

\* Sequential use: init_states() has run, so the test of _states_lock fails.
DoMakeIdentity ==
  /\ states_lock # Null
  /\ Return([h |-> Heap, ret |-> identity_state])

DoMakeInvalid ==
  /\ states_lock # Null
  /\ Return([h |-> Heap, ret |-> invalid_state])

MakeIdentity ==
  /\ DoMakeIdentity
  /\ last' = Call1("make_identity", Null, identity_state)
  /\ UNCHANGED memo

MakeInvalid ==
  /\ DoMakeInvalid
  /\ last' = Call1("make_invalid", Null, invalid_state)
  /\ UNCHANGED memo

DoMakePos(pos) == next <= MaxId /\ Return(make_pos(Heap, pos))

DoMakeScale3(scale) == next <= MaxId /\ Return(make_scale3(Heap, scale))

MakePos(pos) ==
  /\ next <= MaxId
  /\ \E r \in {make_pos(Heap, pos)} :
       Return(r) /\ last' = Call1("make_pos", pos, r.ret)
  /\ UNCHANGED memo

MakeScale3(scale) ==
  /\ next <= MaxId
  /\ \E r \in {make_scale3(Heap, scale)} :
       Return(r) /\ last' = Call1("make_scale", scale, r.ret)
  /\ UNCHANGED memo

\* The caller holds both operands, and there is room for the result and
\* for its cache entry.
CanCall(a, b) ==
  /\ held[a] > 0 /\ held[b] > 0
  /\ next <= MaxId
  /\ TotalHeld < MaxRefs

DoCompose(a, b) ==
  /\ CanCall(a, b)
  /\ \E r \in {compose(Heap, a, b)} :
       /\ Cardinality(AllEntries(r.h)) <= MaxEntries
       /\ Return(r)

Compose(a, b) ==
  /\ CanCall(a, b)
  /\ \E r \in {compose(Heap, a, b)} :
       /\ Cardinality(AllEntries(r.h)) <= MaxEntries
       /\ Return(r)
       /\ last' = [NoCall EXCEPT !.op = "compose", !.x = a, !.y = b, !.ret = r.ret,
                     !.n0 = get_composition_cache_num_entries(Heap, a),
                     !.n1 = get_composition_cache_num_entries(r.h, a),
                     !.e0 = Cardinality(AllEntries(Heap)),
                     !.e1 = Cardinality(AllEntries(r.h)),
                     !.prev = IF memo.a = a /\ memo.b = b THEN memo.r ELSE Null]
       /\ memo' = [a |-> a, b |-> b, r |-> r.ret]

DoInvertCompose(a, b) ==
  /\ CanCall(a, b)
  /\ \E r \in {invert_compose(Heap, a, b)} :
       /\ Cardinality(AllEntries(r.h)) <= MaxEntries
       /\ Return(r)

\* The PandaNode is given a transform a caller holds: it takes a node
\* reference to it.
NodeRef(i) ==
  /\ held[i] > 0 /\ node = Null /\ TotalHeld < MaxRefs
  /\ Commit(node_ref(Heap, i))
  /\ node' = i
  /\ UNCHANGED <<held, Globals>>

\* A release whose unref() returned false deletes the object.
Released(u, i) == IF u.res THEN u.h ELSE Destruct(u.h, i)

NodeUnref(i) ==
  /\ node = i
  /\ Commit(Released(node_unref(Heap, i), i))
  /\ node' = Null
  /\ UNCHANGED <<held, Globals>>

\* A caller lets go of a pointer: unref_delete().
DoDrop(i) ==
  /\ held[i] > 0
  /\ Commit(Released(unref(Heap, i), i))
  /\ held' = [held EXCEPT ![i] = @ - 1]
  /\ UNCHANGED <<node, Globals>>

Drop(i) ==
  /\ DoDrop(i)
  /\ last' = NoCall
  /\ memo' = MemoKept(memo, held')

Evict(i) ==
  /\ i \in alive
  /\ Ordinary(Heap, i) = 0
  /\ cc[i] # {} \/ ic[i] # {}
  /\ Commit(evict(Heap, i))
  /\ UNCHANGED <<held, node, Globals>>

Sweep ==
  /\ SweepCandidates(Heap) # {}
  /\ Commit(sweep(Heap))
  /\ UNCHANGED <<held, node, Globals>>

\* The state after init_states(): the two singletons, registered, each held
\* by its static pointer; n: the build defines NDEBUG.
InitBuild(n) ==
  /\ val = [i \in Ids |-> IF i = 1 THEN IdentityValue
                          ELSE IF i = 2 THEN InvalidValue ELSE NoValue]
  /\ alive = {1, 2}
  /\ next = 3
  /\ ref = [i \in Ids |-> IF i \in {1, 2} THEN 1 ELSE 0]
  /\ nref = [i \in Ids |-> 0]
  /\ cref = [i \in Ids |-> 0]
  /\ cc = [i \in Ids |-> {}]
  /\ ic = [i \in Ids |-> {}]
  /\ states = {1, 2}
  /\ states_lock = LockObj
  /\ identity_state = 1
  /\ invalid_state = 2
  /\ held = [i \in Ids |-> 0]
  /\ node = Null
  /\ last = NoCall
  /\ memo = NoMemo
  /\ flags = [i \in Ids |-> {}]
  /\ thr = [t \in Threads |-> NoThread]
  /\ owner = Null
  /\ ninit = 1
  /\ lock = [i \in Ids |-> Null]
  /\ cell = [i \in Ids |-> {}]
  /\ dtor = NoDtor(n)

\* The debugging build.
Init == InitBuild(FALSE) /\ ApartInit

\* Either build.
BuildInit == (\E n \in BOOLEAN : InitBuild(n)) /\ ApartInit

\* The arguments the callers of the lifetime specification pass.
LifePos == {1}
LifeScale == {0}

\* The lifetime of the values: construction, composition, release, cache
\* eviction and the sweep.
Next ==
  \/ \E pos \in LifePos : Quiet(DoMakePos(pos))
  \/ \E scale \in LifeScale : Quiet(DoMakeScale3(scale))
  \/ \E a, b \in Ids : Quiet(DoCompose(a, b))
  \/ \E a, b \in Ids : Quiet(DoInvertCompose(a, b))
  \/ \E i \in Ids : Quiet(NodeRef(i))
  \/ \E i \in Ids : Quiet(NodeUnref(i))
  \/ \E i \in Ids : Quiet(DoDrop(i))
  \/ \E i \in Ids : Quiet(Evict(i))
  \/ Quiet(Sweep)

Spec == Init /\ [][Next]_vars

\* The lifetime of the values in either build.
BuildSpec == BuildInit /\ [][Next]_vars

\* The calls of one caller, each recorded with what it returned.
CallNext ==
  \/ MakeIdentity
  \/ MakeInvalid
  \/ \E pos \in LifePos : MakePos(pos)
  \/ \E scale \in LifeScale : MakeScale3(scale)
  \/ \E a, b \in Ids : Compose(a, b)
  \/ \E i \in Ids : Drop(i)

CallSpec == Init /\ [][CallNext]_vars

\* A caller asks for the registered instance of a value it holds.
GetUnique(i) ==
  /\ held[i] > 0
  /\ next <= MaxId
  /\ \E r \in {get_unique(Heap, i)} :
       Return(r) /\ last' = Call1("get_unique", i, r.ret)
  /\ UNCHANGED memo

\* The calls of one caller, get_unique() among them.
UniqueNext ==
  \/ CallNext
  \/ \E i \in Ids : GetUnique(i)

UniqueSpec == Init /\ [][UniqueNext]_vars

\* A factory call, recorded with its arguments and what it returned.
Fac(op, r, x, y, z, w) ==
  /\ next <= MaxId
  /\ TotalHeld < MaxRefs
  /\ \E q \in {r} :
       /\ Return(q)
       /\ last' = [NoCall EXCEPT !.op = op, !.x = x, !.y = y, !.z = z, !.w = w,
                                 !.ret = q.ret]
  /\ UNCHANGED memo

MakeHpr(hpr) == Fac("make_hpr", make_hpr(Heap, hpr), hpr, Null, Null, Null)

MakeQuat(quat) == Fac("make_quat", make_quat(Heap, quat), quat, Null, Null, Null)

MakePosHpr(pos, hpr) ==
  Fac("make_pos_hpr", make_pos_hpr(Heap, pos, hpr), pos, hpr, Null, Null)

MakePosQuat(pos, quat) ==
  Fac("make_pos_quat", make_pos_quat(Heap, pos, quat), pos, quat, Null, Null)

MakeShear(shear) == Fac("make_shear", make_shear(Heap, shear), shear, Null, Null, Null)

MakePosHprScale(pos, hpr, scale) ==
  Fac("make_pos_hpr_scale", make_pos_hpr_scale(Heap, pos, hpr, scale),
      pos, hpr, scale, Null)

MakePosQuatScale(pos, quat, scale) ==
  Fac("make_pos_quat_scale", make_pos_quat_scale(Heap, pos, quat, scale),
      pos, quat, scale, Null)

MakePosHprScaleShear(pos, hpr, scale, shear) ==
  Fac("make_pos_hpr_scale_shear",
      make_pos_hpr_scale_shear(Heap, pos, hpr, scale, shear), pos, hpr, scale, shear)

MakePosQuatScaleShear(pos, quat, scale, shear) ==
  Fac("make_pos_quat_scale_shear",
      make_pos_quat_scale_shear(Heap, pos, quat, scale, shear), pos, quat, scale, shear)

\* The arguments the callers of the factory specification pass.
FacPos == {0, 1}
FacRot == {0, 1}
FacScale == {1, 2}
\* A shear is given to make_shear() only; the full factories are called
\* with the default one.
FacShear == {0, 1}
FacFullShear == {0}

\* The factories, called in any order by one caller that lets go of what it
\* was given at any time.
FactoryNext ==
  \/ MakeIdentity
  \/ MakeInvalid
  \/ \E pos \in FacPos : MakePos(pos)
  \/ \E hpr \in FacRot : MakeHpr(hpr)
  \/ \E quat \in FacRot : MakeQuat(quat)
  \/ \E pos \in FacPos, hpr \in FacRot : MakePosHpr(pos, hpr)
  \/ \E pos \in FacPos, quat \in FacRot : MakePosQuat(pos, quat)
  \/ \E scale \in FacScale : MakeScale3(scale)
  \/ \E shear \in FacShear : MakeShear(shear)
  \/ \E pos \in FacPos, hpr \in FacRot, scale \in FacScale :
       MakePosHprScale(pos, hpr, scale)
  \/ \E pos \in FacPos, quat \in FacRot, scale \in FacScale :
       MakePosQuatScale(pos, quat, scale)
  \/ \E pos \in FacPos, hpr \in FacRot, scale \in FacScale, shear \in FacFullShear :
       MakePosHprScaleShear(pos, hpr, scale, shear)
  \/ \E pos \in FacPos, quat \in FacRot, scale \in FacScale, shear \in FacFullShear :
       MakePosQuatScaleShear(pos, quat, scale, shear)
  \/ \E i \in Ids : Drop(i)

FactorySpec == Init /\ [][FactoryNext]_vars

\* ------------------------------------------------- concurrent interning

Objects == <<val, alive, next, ref, nref, cref, cc, ic, states, dtor>>

HeapVars == <<Objects, Apart>>

Caller == <<held, node, last, memo>>

\* All that belongs to the transforms.
Transforms == <<Objects, Caller, Globals>>

\* A slip: the registry is entered without the lock.
CanAcquire_Always(t) == TRUE

\* LightReMutexHolder holder(*_states_lock): the lock is free, or held by the
\* thread itself (it is re-entrant).
CanAcquire(t) == owner \in {Null, t}

Goto(t, pc) == thr' = [thr EXCEPT ![t].pc = pc]

\* The values the racing threads intern.
InternVals == {Value("comp", "hpr", Logical(1, pos, 0, 0, 0), FALSE) : pos \in {1, 2}}

\* Thread t constructs a candidate, to which it holds the only pointer.
TNew(t, v) ==
  /\ thr[t].pc = "idle"
  /\ next <= MaxId
  /\ \E c \in {New(Heap, v)} :
       /\ Commit(RefOnly(c.h, c.i))
       /\ thr' = [thr EXCEPT ![t] = [NoThread EXCEPT !.pc = "made",
                                       !.op = "get_unique", !.c = c.i, !.v = v]]
  /\ UNCHANGED <<Caller, Lazy, Statics, flags, owner>>

\* get_unique() calls return_unique(this), which takes _states_lock.
TAcquire(t) ==
  /\ thr[t].pc = "made"
  /\ CanAcquire(t)
  /\ owner' = t
  /\ Goto(t, "locked")
  /\ UNCHANGED <<HeapVars, Caller, Lazy, Statics, flags>>

\* return_unique() looks for a registered instance equal to the candidate.
TLookup(t) ==
  /\ thr[t].pc = "locked"
  /\ LET found == {i \in states : Equal(val[i], val[thr[t].c])} IN
     thr' = [thr EXCEPT ![t].pc = "looked",
                        ![t].ret = IF found = {} THEN Null
                                   ELSE CHOOSE i \in found : TRUE]
  /\ UNCHANGED <<HeapVars, Caller, Lazy, Statics, flags, owner>>

\* return_unique() registers the candidate if it found none, and otherwise
\* takes a pointer to the instance it found.
TInsert(t) ==
  /\ thr[t].pc = "looked"
  /\ IF thr[t].ret = Null
       THEN /\ Commit([Heap EXCEPT !.states = @ \cup {thr[t].c}])
            /\ thr' = [thr EXCEPT ![t].pc = "interned", ![t].ret = thr[t].c]
       ELSE /\ Commit(RefOnly(Heap, thr[t].ret))
            /\ Goto(t, "interned")
  /\ UNCHANGED <<Caller, Lazy, Statics, flags, owner>>

\* return_unique() returns: the lock is released, and a candidate that lost
\* is deleted with the last pointer to it.
TFinish(t) ==
  /\ thr[t].pc = "interned"
  /\ owner' = Null
  /\ IF thr[t].ret = thr[t].c
       THEN UNCHANGED HeapVars
       ELSE Commit([Heap EXCEPT !.alive = @ \ {thr[t].c}, !.ref[thr[t].c] = 0])
  /\ Goto(t, "done")
  /\ UNCHANGED <<Caller, Lazy, Statics, flags>>

\* The thread lets go of the pointer it was returned; unref() takes the lock.
TDrop(t) ==
  /\ thr[t].pc = "done"
  /\ CanAcquire(t)
  /\ Commit(Released(unref(Heap, thr[t].ret), thr[t].ret))
  /\ thr' = [thr EXCEPT ![t] = NoThread]
  /\ UNCHANGED <<Caller, Lazy, Statics, flags, owner>>

InternNext ==
  \E t \in Threads :
    \/ \E v \in InternVals : TNew(t, v)
    \/ TAcquire(t)
    \/ TLookup(t)
    \/ TInsert(t)
    \/ TFinish(t)
    \/ TDrop(t)

\* Threads that intern candidates at the same time.
InternSpec == Init /\ [][InternNext]_vars

\* ------------------------------------------- first use of the singletons

\* The process before the first use of the subsystem.
ColdInit ==
  /\ val = [i \in Ids |-> NoValue]
  /\ alive = {}
  /\ next = 1
  /\ ref = [i \in Ids |-> 0]
  /\ nref = [i \in Ids |-> 0]
  /\ cref = [i \in Ids |-> 0]
  /\ cc = [i \in Ids |-> {}]
  /\ ic = [i \in Ids |-> {}]
  /\ states = {}
  /\ states_lock = Null
  /\ identity_state = Null
  /\ invalid_state = Null
  /\ held = [i \in Ids |-> 0]
  /\ node = Null
  /\ last = NoCall
  /\ memo = NoMemo
  /\ flags = [i \in Ids |-> {}]
  /\ thr = [t \in Threads |-> NoThread]
  /\ owner = Null
  /\ ninit = 0
  /\ lock = [i \in Ids |-> Null]
  /\ cell = [i \in Ids |-> {}]
  /\ dtor = NoDtor(FALSE)
  /\ ApartInit

\* What init_states() constructs: the two singletons, registered.
init_states(H) ==
  LET a == New(H, IdentityValue)
      b == New(a.h, InvalidValue)
  IN [h |-> [RefOnly(RefOnly(b.h, a.i), b.i) EXCEPT !.states = @ \cup {a.i, b.i}],
      identity |-> a.i, invalid |-> b.i]

\* make_identity() / make_invalid(): the test of _states_lock.
ICall(t, op) ==
  /\ thr[t].pc = "idle"
  /\ thr' = [thr EXCEPT ![t] = [NoThread EXCEPT
                                  !.pc = IF states_lock = Null THEN "init" ELSE "fetch",
                                  !.op = op]]
  /\ UNCHANGED <<HeapVars, Caller, Lazy, Statics, flags, owner>>

\* The thread found _states_lock null and runs init_states(), which no lock
\* protects: its store to _states_lock and its stores to the singleton
\* pointers reach the other threads one after the other, in either order.
IInitLock(t) ==
  /\ thr[t].pc \in {"init", "init_s"}
  /\ states_lock' = LockObj
  /\ ninit' = IF thr[t].pc = "init_s" THEN ninit + 1 ELSE ninit
  /\ Goto(t, IF thr[t].pc = "init_s" THEN "fetch" ELSE "init_l")
  /\ UNCHANGED <<HeapVars, identity_state, invalid_state, Caller, Lazy, flags, owner>>

IInitSingletons(t) ==
  /\ thr[t].pc \in {"init", "init_l"}
  /\ next + 1 <= MaxId
  /\ \E r \in {init_states(Heap)} :
       /\ Commit(r.h)
       /\ identity_state' = r.identity
       /\ invalid_state' = r.invalid
  /\ ninit' = IF thr[t].pc = "init_l" THEN ninit + 1 ELSE ninit
  /\ Goto(t, IF thr[t].pc = "init_l" THEN "fetch" ELSE "init_s")
  /\ UNCHANGED <<states_lock, Caller, Lazy, flags, owner>>

\* return _identity_state; / return _invalid_state;
IReturn(t) ==
  /\ thr[t].pc = "fetch"
  /\ \E r \in {IF thr[t].op = "make_identity" THEN identity_state ELSE invalid_state} :
       /\ thr' = [thr EXCEPT ![t].pc = "returned", ![t].ret = r]
       /\ IF r = Null THEN UNCHANGED HeapVars ELSE Commit(RefOnly(Heap, r))
  /\ UNCHANGED <<Caller, Lazy, Statics, flags, owner>>

\* The thread lets go of the singleton, which its static pointer keeps alive.
IDrop(t) ==
  /\ thr[t].pc = "returned"
  /\ IF thr[t].ret = Null THEN UNCHANGED HeapVars
     ELSE Commit(unref(Heap, thr[t].ret).h)
  /\ thr' = [thr EXCEPT ![t] = NoThread]
  /\ UNCHANGED <<Caller, Lazy, Statics, flags, owner>>

InitNext ==
  \E t \in Threads :
    \/ \E op \in {"make_identity", "make_invalid"} : ICall(t, op)
    \/ IInitLock(t)
    \/ IInitSingletons(t)
    \/ IReturn(t)
    \/ IDrop(t)

\* Threads that use the subsystem for the first time.
InitSpec == ColdInit /\ [][InitNext]_vars

\* ------------------------------------------------------ component accessors

\* The _flags bits the constructors set.
GivenFlags(v) ==
  (IF v.twod THEN {"is_2d"} ELSE {}) \cup
  CASE v.kind = "identity" ->
         {"is_identity", "components_known", "has_components", "hpr_known", "quat_known",
          "norm_quat_known", "mat_known"}
    [] v.kind = "invalid" -> {"is_invalid", "components_known", "mat_known"}
    [] v.kind = "comp" /\ v.rot = "hpr" ->
         {"components_given", "hpr_given", "hpr_known", "components_known",
          "has_components"}
    [] v.kind = "comp" /\ v.rot = "quat" ->
         {"components_given", "quat_given", "quat_known", "components_known",
          "has_components"}
    [] v.kind = "mat" -> {"mat_known"}
    [] OTHER -> {}

\* _flags of instance i.
Flags(i) == GivenFlags(val[i]) \cup flags[i]

\* A slip: the F_is_2d bit is tested for zero.
is_2d_Not(i) == "is_2d" \notin Flags(i)

is_2d(i) == "is_2d" \in Flags(i)

\* A slip: the position is taken to be one of the components.
has_pos_Components(i) == "has_components" \in Flags(i)

has_pos(i) == ~is_invalid(i)

has_mat(i) == ~is_invalid(i)

\* decompose_matrix(): a matrix with skew has no components.
Decomposable(v) == v.kind # "invalid" /\ v.l.k = 0

\* A note, kept with the flags, that a calc_ routine has been entered for a
\* representation whose known-flag was set.
Entering(F, known) == IF known \in F THEN {"calc_again"} ELSE {}

do_calc_components(F, v) ==
  F \cup {"components_known"}
    \cup (IF Decomposable(v) THEN {"has_components", "hpr_known"} ELSE {})

calc_components(F, v) == do_calc_components(F, v) \cup Entering(F, "components_known")

\* A slip: the flag is not tested.
check_components_Always(F, v) == calc_components(F, v)

check_components(F, v) ==
  IF "components_known" \notin F THEN calc_components(F, v) ELSE F

do_calc_hpr(F, v) ==
  LET G == IF "components_known" \notin F THEN do_calc_components(F, v) ELSE F
  IN IF "has_components" \in G THEN G \cup {"hpr_known"} ELSE G

calc_hpr(F, v) == do_calc_hpr(F, v) \cup Entering(F, "hpr_known")

check_hpr(F, v) == IF "hpr_known" \notin F THEN calc_hpr(F, v) ELSE F

do_calc_quat(F, v) ==
  LET G == IF "components_known" \notin F THEN do_calc_components(F, v) ELSE F
  IN IF "has_components" \in G THEN G \cup {"quat_known"} ELSE G

calc_quat(F, v) == do_calc_quat(F, v) \cup Entering(F, "quat_known")

check_quat(F, v) == IF "quat_known" \notin F THEN calc_quat(F, v) ELSE F

do_calc_norm_quat(F, v) ==
  LET G == check_quat(F, v)
  IN IF "quat_known" \in G THEN G \cup {"norm_quat_known"} ELSE G

calc_norm_quat(F, v) == do_calc_norm_quat(F, v) \cup Entering(F, "norm_quat_known")

check_norm_quat(F, v) == IF "norm_quat_known" \notin F THEN calc_norm_quat(F, v) ELSE F

\* A slip: the flag is read without check_components().
has_components_NoCheck(i) ==
  [f |-> Flags(i), yes |-> "has_components" \in Flags(i)]

\* [f: _flags after the call, yes: what it returns]
has_components(i) ==
  LET F == check_components(Flags(i), val[i])
  IN [f |-> F, yes |-> "has_components" \in F]

has_hpr(i) == has_components(i)

has_quat(i) == has_components(i)

has_scale(i) == has_components(i)

has_shear(i) == has_components(i)

\* A vector, quaternion or hash field that no constructor and no derivation
\* has written, and such a matrix.
Unset == <<0 - 1>>
UnsetMat == <<>>

\* A matrix an accessor returns, as the tuple of its parts.
AsTuple(l) == <<l.s, l.p, l.r, l.h, l.k>>

\* do_calc_hash(): equal values have equal hashes.
Hash(v) ==
  IF v.kind = "invalid" THEN 0
  ELSE 1 + v.l.s + 3 * v.l.p + 9 * v.l.r + 18 * v.l.h + 36 * v.l.k
         + (IF v.twod \/ v.l = IdentLogical THEN 72 ELSE 0)

\* The field name of a value v whose _flags are F: what the constructor or
\* a derivation has stored there.  A derivation stores the translation
\* whether or not the matrix decomposes, and the other components when it does.
Field(F, v, name) ==
  CASE name = "_pos" ->
         IF "components_known" \in F /\ v.kind # "invalid" THEN <<v.l.p>> ELSE Unset
    [] name = "_hpr" -> IF "hpr_known" \in F THEN <<v.l.r>> ELSE Unset
    [] name = "_quat" -> IF "quat_known" \in F THEN <<v.l.r>> ELSE Unset
    [] name = "_norm_quat" -> IF "norm_quat_known" \in F THEN <<v.l.r>> ELSE Unset
    [] name = "_scale" -> IF "has_components" \in F THEN <<v.l.s>> ELSE Unset
    [] name = "_shear" -> IF "has_components" \in F THEN <<v.l.h>> ELSE Unset
    [] name = "_mat" ->
         IF "mat_known" \in F /\ v.kind # "invalid" THEN AsTuple(v.l) ELSE UnsetMat
    [] name = "_hash" -> IF "hash_known" \in F THEN <<Hash(v)>> ELSE Unset

\* The accessors: [f: _flags after the call, asserted: nassertr() failed,
\* out: the field returned]
Got(F, i, name, ok) ==
  [f |-> F, asserted |-> ~ok, out |-> Field(F, val[i], name)]

get_pos(i) == Got(check_components(Flags(i), val[i]), i, "_pos", has_pos(i))

get_hpr(i) == Got(check_hpr(Flags(i), val[i]), i, "_hpr", ~is_invalid(i))

get_quat(i) == Got(check_quat(Flags(i), val[i]), i, "_quat", ~is_invalid(i))

get_norm_quat(i) ==
  Got(check_norm_quat(Flags(i), val[i]), i, "_norm_quat", ~is_invalid(i))

\* A slip: _scale is returned without check_components().
get_scale_NoCheck(i) == Got(Flags(i), i, "_scale", ~is_invalid(i))

get_scale(i) == Got(check_components(Flags(i), val[i]), i, "_scale", ~is_invalid(i))

get_shear(i) == Got(check_components(Flags(i), val[i]), i, "_shear", ~is_invalid(i))

\* calc_singular() inverts the matrix: it sets F_is_singular when that fails
\* and stores the inverse in _inv_mat when it succeeds.
do_calc_singular(F, v) ==
  F \cup {"singular_known"} \cup (IF v.l.s = 0 THEN {"is_singular"} ELSE {})

calc_singular(F, v) == do_calc_singular(F, v) \cup Entering(F, "singular_known")

check_singular(F, v) == IF "singular_known" \notin F THEN calc_singular(F, v) ELSE F

is_singular(i) ==
  LET F == check_singular(Flags(i), val[i])
  IN [f |-> F, yes |-> "is_singular" \in F]

\* out: the matrix _inv_mat points to, or <<>> for the null pointer.
get_inverse_mat(i) ==
  LET r == is_singular(i) IN
  IF ~r.yes
    THEN [f |-> r.f, asserted |-> FALSE, out |-> AsTuple(Inv(val[i].l))]
    ELSE [f |-> r.f, asserted |-> FALSE, out |-> <<>>]

do_calc_mat(F, v) == F \cup {"mat_known"}

calc_mat(F, v) == do_calc_mat(F, v) \cup Entering(F, "mat_known")

check_mat(F, v) == IF "mat_known" \notin F THEN calc_mat(F, v) ELSE F

get_mat(i) ==
  IF ~has_mat(i)
    THEN [f |-> Flags(i), asserted |-> TRUE, out |-> AsTuple(IdentLogical)]
    ELSE Got(check_mat(Flags(i), val[i]), i, "_mat", TRUE)

\* _hash is H_unknown until calc_hash() has stored the hash.
calc_hash(F, v) == F \cup {"hash_known"}

\* A slip: a hash that is known is marked as unknown.
check_hash_Forget(F, v) ==
  IF "hash_known" \notin F THEN calc_hash(F, v) ELSE F \ {"hash_known"}

check_hash(F, v) == IF "hash_known" \notin F THEN calc_hash(F, v) ELSE F

get_hash(i) == Got(check_hash(Flags(i), val[i]), i, "_hash", TRUE)

\* The 2-d accessors: out is what the call returns, a 2-vector abstracted to
\* one scalar and a matrix to the tuple of its parts.

get_pos2d(i) ==
  LET F == check_components(Flags(i), val[i]) IN
  IF ~(has_pos(i) /\ is_2d(i))
    THEN [f |-> F, asserted |-> TRUE, out |-> <<0>>]
    ELSE [f |-> F, asserted |-> FALSE, out |-> <<val[i].l.p>>]

\* get_default_coordinate_system() is CS_zup_right: _hpr[0].
get_rotate2d(i) ==
  LET F == check_hpr(Flags(i), val[i]) IN
  IF ~(~is_invalid(i) /\ is_2d(i))
    THEN [f |-> F, asserted |-> TRUE, out |-> <<0>>]
    ELSE [f |-> F, asserted |-> FALSE, out |-> <<val[i].l.r>>]

get_scale2d(i) ==
  LET F == check_components(Flags(i), val[i]) IN
  IF ~(~is_invalid(i) /\ is_2d(i))
    THEN [f |-> F, asserted |-> TRUE, out |-> <<0>>]
    ELSE [f |-> F, asserted |-> FALSE, out |-> <<val[i].l.s>>]

get_shear2d(i) ==
  LET F == check_components(Flags(i), val[i]) IN
  IF ~(~is_invalid(i) /\ is_2d(i))
    THEN [f |-> F, asserted |-> TRUE, out |-> <<0>>]
    ELSE [f |-> F, asserted |-> FALSE, out |-> <<val[i].l.h>>]

get_mat3(i) ==
  IF ~(has_mat(i) /\ is_2d(i))
    THEN [f |-> Flags(i), asserted |-> TRUE, out |-> AsTuple(IdentLogical)]
    ELSE [f |-> check_mat(Flags(i), val[i]), asserted |-> FALSE,
          out |-> AsTuple(val[i].l)]

\* A caller calls an accessor of an instance it holds.
Acc(op, i, f, asserted, yes) ==
  /\ held[i] > 0
  /\ flags' = [flags EXCEPT ![i] = f]
  /\ last' = [NoCall EXCEPT !.op = op, !.x = i, !.asserted = asserted, !.yes = yes]
  /\ UNCHANGED <<HeapVars, held, node, memo, Statics, thr, owner, Lazy>>

HasComponents(i) ==
  Acc("has_components", i, has_components(i).f, FALSE, has_components(i).yes)

GetHpr(i) == Acc("get_hpr", i, get_hpr(i).f, get_hpr(i).asserted, FALSE)

GetQuat(i) == Acc("get_quat", i, get_quat(i).f, get_quat(i).asserted, FALSE)

GetNormQuat(i) ==
  Acc("get_norm_quat", i, get_norm_quat(i).f, get_norm_quat(i).asserted, FALSE)

GetScale(i) == Acc("get_scale", i, get_scale(i).f, get_scale(i).asserted, FALSE)

GetShear(i) == Acc("get_shear", i, get_shear(i).f, get_shear(i).asserted, FALSE)

HasPos(i) == Acc("has_pos", i, flags[i], FALSE, has_pos(i))

HasMat(i) == Acc("has_mat", i, flags[i], FALSE, has_mat(i))

MakeMat(l) == Fac("make_mat", make_mat(Heap, l), Null, Null, Null, Null)

\* The matrices the callers pass: a translation, and a matrix with skew.
AccMats == {Logical(1, 1, 0, 0, 0), Logical(1, 0, 0, 0, 1)}

AccNext ==
  \/ MakeInvalid
  \/ \E l \in AccMats : MakeMat(l)
  \/ \E quat \in {1} : MakeQuat(quat)
  \/ \E i \in Ids : HasComponents(i)
  \/ \E i \in Ids : GetHpr(i)
  \/ \E i \in Ids : GetQuat(i)
  \/ \E i \in Ids : GetNormQuat(i)
  \/ \E i \in Ids : GetScale(i)
  \/ \E i \in Ids : GetShear(i)
  \/ \E i \in Ids : Drop(i)

\* One caller that makes values and reads their components.
AccSpec == Init /\ [][AccNext]_vars

HasHpr(i) == Acc("has_hpr", i, has_hpr(i).f, FALSE, has_hpr(i).yes)

HasQuat(i) == Acc("has_quat", i, has_quat(i).f, FALSE, has_quat(i).yes)

HasScale(i) == Acc("has_scale", i, has_scale(i).f, FALSE, has_scale(i).yes)

HasShear(i) == Acc("has_shear", i, has_shear(i).f, FALSE, has_shear(i).yes)

\* One caller that makes the invalid value, matrices and a value given by
\* components, and calls the has_ predicates of what it holds.
HasNext ==
  \/ MakeInvalid
  \/ \E l \in AccMats : MakeMat(l)
  \/ \E quat \in {1} : MakeQuat(quat)
  \/ \E i \in Ids : HasPos(i)
  \/ \E i \in Ids : HasMat(i)
  \/ \E i \in Ids : HasComponents(i)
  \/ \E i \in Ids : HasHpr(i)
  \/ \E i \in Ids : HasQuat(i)
  \/ \E i \in Ids : HasScale(i)
  \/ \E i \in Ids : HasShear(i)
  \/ \E i \in Ids : Drop(i)

HasSpec == Init /\ [][HasNext]_vars

\* A caller calls an accessor that returns a value, r, of an instance it holds.
\* (The inverse specification follows the accessors.)
AccOut(op, i, r) ==
  /\ held[i] > 0
  /\ flags' = [flags EXCEPT ![i] = r.f]
  /\ last' = [NoCall EXCEPT !.op = op, !.x = i, !.asserted = r.asserted,
                            !.out = r.out]
  /\ UNCHANGED <<HeapVars, held, node, memo, Statics, thr, owner, Lazy>>

GetPos2d(i) == AccOut("get_pos2d", i, get_pos2d(i))

GetRotate2d(i) == AccOut("get_rotate2d", i, get_rotate2d(i))

GetScale2d(i) == AccOut("get_scale2d", i, get_scale2d(i))

GetShear2d(i) == AccOut("get_shear2d", i, get_shear2d(i))

GetMat3(i) == AccOut("get_mat3", i, get_mat3(i))

MakePos2d(pos) == Fac("make_pos2d", make_pos2d(Heap, pos), pos, Null, Null, Null)

MakeRotate2d(rotate) ==
  Fac("make_rotate2d", make_rotate2d(Heap, rotate), rotate, Null, Null, Null)

MakePosRotate2d(pos, rotate) ==
  Fac("make_pos_rotate2d", make_pos_rotate2d(Heap, pos, rotate),
      pos, rotate, Null, Null)

MakeScale2d(scale) ==
  Fac("make_scale2d", make_scale2d(Heap, scale), scale, Null, Null, Null)

MakeShear2d(shear) ==
  Fac("make_shear2d", make_shear2d(Heap, shear), shear, Null, Null, Null)

MakePosRotateScale2d(pos, rotate, scale) ==
  Fac("make_pos_rotate_scale2d", make_pos_rotate_scale2d(Heap, pos, rotate, scale),
      pos, rotate, scale, Null)

MakePosRotateScaleShear2d(pos, rotate, scale, shear) ==
  Fac("make_pos_rotate_scale_shear2d",
      make_pos_rotate_scale_shear2d(Heap, pos, rotate, scale, shear),
      pos, rotate, scale, shear)

\* make_scale() with a scalar argument.
MakeScale(scale) ==
  Fac("make_scale(PN_stdfloat)", make_scale(Heap, scale), scale, Null, Null, Null)

\* The arguments the callers of the 2-d specifications pass.
TwoDPos == {1}
TwoDRot == {1}
TwoDScale == {2}
TwoDShear == {1}
TwoDMats == {Logical(2, 0, 0, 0, 0)}

\* One caller that makes 2-d values, a 3-d value and the invalid value, and
\* calls the 2-d accessors of what it holds.
TwoDNext ==
  \/ MakeInvalid
  \/ \E pos \in TwoDPos : MakePos2d(pos)
  \/ \E pos \in TwoDPos, rotate \in TwoDRot, scale \in TwoDScale,
        shear \in TwoDShear :
       MakePosRotateScaleShear2d(pos, rotate, scale, shear)
  \/ \E pos \in TwoDPos : MakePos(pos)
  \/ \E i \in Ids : GetPos2d(i)
  \/ \E i \in Ids : GetRotate2d(i)
  \/ \E i \in Ids : GetScale2d(i)
  \/ \E i \in Ids : GetShear2d(i)
  \/ \E i \in Ids : GetMat3(i)
  \/ \E i \in Ids : Drop(i)

TwoDSpec == Init /\ [][TwoDNext]_vars

\* One caller that calls the 2-d factories, 3-d factories and make_mat().
TwoDFacNext ==
  \/ \E pos \in TwoDPos : MakePos2d(pos)
  \/ \E rotate \in TwoDRot : MakeRotate2d(rotate)
  \/ \E pos \in TwoDPos, rotate \in TwoDRot : MakePosRotate2d(pos, rotate)
  \/ \E scale \in TwoDScale : MakeScale2d(scale)
  \/ \E shear \in TwoDShear : MakeShear2d(shear)
  \/ \E pos \in TwoDPos, rotate \in TwoDRot, scale \in TwoDScale :
       MakePosRotateScale2d(pos, rotate, scale)
  \/ \E scale \in TwoDScale : MakeScale(scale)
  \/ \E pos \in TwoDPos : MakePos(pos)
  \/ \E scale \in TwoDScale : MakeScale3(scale)
  \/ \E l \in TwoDMats : MakeMat(l)
  \/ \E i \in Ids : Drop(i)

TwoDFacSpec == Init /\ [][TwoDFacNext]_vars

IsSingular(i) == Acc("is_singular", i, is_singular(i).f, FALSE, is_singular(i).yes)

GetInverseMat(i) == AccOut("get_inverse_mat", i, get_inverse_mat(i))

\* The caller holds a; the result and its cache entry need room.
GetInverse(a) ==
  /\ held[a] > 0
  /\ next <= MaxId
  /\ TotalHeld < MaxRefs
  /\ \E r \in {get_inverse(Heap, a)} :
       /\ Cardinality(AllEntries(r.h)) <= MaxEntries
       /\ Return(r)
       /\ last' = Call1("get_inverse", a, r.ret)
  /\ UNCHANGED memo

\* The translations and scales the callers of the inverse specification pass:
\* a scale of 0 is singular.
InvPos == {1}
InvScale == {0, 2}
LawScale == {0}

\* One caller that makes values, singular ones among them, and asks for
\* their inverses.
InvNext ==
  \/ \E pos \in InvPos : MakePos(pos)
  \/ \E scale \in InvScale : MakeScale3(scale)
  \/ \E i \in Ids : IsSingular(i)
  \/ \E i \in Ids : GetInverseMat(i)
  \/ \E a \in Ids : GetInverse(a)
  \/ \E i \in Ids : Drop(i)

InvSpec == Init /\ [][InvNext]_vars

\* a->invert_compose(b), a->get_inverse() and the inverse's compose(b) store
\* an entry each.
LawEntries == MaxEntries + 1

\* A call of the caller that checks the inverse against invert_compose():
\* it holds the operands, and r is what the call does.
Law(op, a, b, r) ==
  /\ CanCall(a, b)
  /\ \E q \in {r} :
       /\ Cardinality(AllEntries(q.h)) <= LawEntries
       /\ Return(q)
       /\ last' = [NoCall EXCEPT !.op = op, !.x = a, !.y = b, !.ret = q.ret]
  /\ UNCHANGED memo

LawGetInverse(a) == Law("get_inverse", a, a, get_inverse(Heap, a))

LawInvertCompose(a, b) == Law("invert_compose", a, b, invert_compose(Heap, a, b))

LawCompose(a, b) == Law("compose", a, b, compose(Heap, a, b))

\* One caller that makes values, inverts them and composes them.
InvComposeNext ==
  \/ \E pos \in InvPos : MakePos(pos)
  \/ \E scale \in LawScale : MakeScale3(scale)
  \/ \E a \in Ids : LawGetInverse(a)
  \/ \E a, b \in Ids : LawInvertCompose(a, b)
  \/ \E a, b \in Ids : LawCompose(a, b)
  \/ \E i \in Ids : Drop(i)

InvComposeSpec == Init /\ [][InvComposeNext]_vars

\* What a call of accessor op on instance i returns and does: r.f the _flags
\* after, and the result, that is whether an assertion failed, the truth
\* value and the field returned.
Accessor(op, i) ==
  CASE op = "get_pos" -> get_pos(i) @@ [yes |-> FALSE]
    [] op = "get_hpr" -> get_hpr(i) @@ [yes |-> FALSE]
    [] op = "get_quat" -> get_quat(i) @@ [yes |-> FALSE]
    [] op = "get_norm_quat" -> get_norm_quat(i) @@ [yes |-> FALSE]
    [] op = "get_scale" -> get_scale(i) @@ [yes |-> FALSE]
    [] op = "get_shear" -> get_shear(i) @@ [yes |-> FALSE]
    [] op = "get_mat" -> get_mat(i) @@ [yes |-> FALSE]
    [] op = "get_hash" -> get_hash(i) @@ [yes |-> FALSE]
    [] op = "is_singular" -> is_singular(i) @@ [asserted |-> FALSE, out |-> <<>>]
    [] op = "has_components" ->
         has_components(i) @@ [asserted |-> FALSE, out |-> <<>>]

Accessors ==
  {"get_pos", "get_hpr", "get_quat", "get_norm_quat", "get_scale", "get_shear",
   "get_mat", "get_hash", "is_singular", "has_components"}

Result(r) == [asserted |-> r.asserted, yes |-> r.yes, out |-> r.out]

\* A caller calls an accessor of an instance it holds, and keeps what it
\* returned (keep) or what an earlier call had returned.
Derive(op, i, keep) ==
  /\ held[i] > 0
  /\ \E r \in {Accessor(op, i)} :
       /\ flags' = [flags EXCEPT ![i] = r.f]
       /\ last' = [NoCall EXCEPT !.op = op, !.x = i, !.asserted = r.asserted,
                                 !.yes = r.yes, !.out = r.out]
       /\ memo' = IF keep THEN [a |-> i, b |-> op, r |-> Result(r)] ELSE memo
  /\ UNCHANGED <<HeapVars, held, node, Statics, thr, owner, Lazy>>

\* The caller lets go of a pointer, and forgets what an accessor of a
\* destroyed instance returned.
DeriveDrop(i) ==
  /\ held[i] > 0
  /\ Commit(Released(unref(Heap, i), i))
  /\ held' = [held EXCEPT ![i] = @ - 1]
  /\ flags' = IF i \in alive' THEN flags ELSE [flags EXCEPT ![i] = {}]
  /\ last' = NoCall
  /\ memo' = IF memo.a = i /\ i \notin alive' THEN NoMemo ELSE memo
  /\ UNCHANGED <<node, Statics, thr, owner, Lazy>>

\* The caller examines one value at a time.
HoldsNone == \A i \in Ids : held[i] = 0

\* One caller that makes a value of each kind and calls its accessors in
\* any order.
DeriveNext ==
  \/ HoldsNone /\ MakeInvalid
  \/ \E l \in AccMats : HoldsNone /\ MakeMat(l)
  \/ \E quat \in {1} : HoldsNone /\ MakeQuat(quat)
  \/ \E op \in Accessors, i \in Ids, keep \in BOOLEAN : Derive(op, i, keep)
  \/ \E i \in Ids : DeriveDrop(i)

DeriveSpec == Init /\ [][DeriveNext]_vars

\* ------------------------------------------------------------- ordering
\* The configuration variable uniquify-matrix.
uniquify_matrix == TRUE

\* operator ==: the two values denote the same transform.
operator_eq(a, b) == Equal(val[a], val[b])

\* A slip: the negation is missing.
operator_ne_Same(a, b) == operator_eq(a, b)

\* operator !=
operator_ne(a, b) == ~operator_eq(a, b)

\* The bit of _flags that sets a value apart from every transform.
SignificantBits(F) == IF "is_invalid" \in F THEN 1 ELSE 0

\* LVecBase3::compare_to, LMatrix4::compare_to: the first difference decides.
RECURSIVE CompareSeq(_, _)
CompareSeq(x, y) ==
  IF x = <<>> \/ y = <<>> THEN 0
  ELSE IF Head(x) < Head(y) THEN 0 - 1
  ELSE IF Head(x) > Head(y) THEN 1
  ELSE CompareSeq(Tail(x), Tail(y))

\* The dimension of a transform; the identity is the same in both.
Dimension(i) == IF is_2d(i) \/ val[i].l = IdentLogical THEN 2 ELSE 3

\* The comparison reaches the matrices, which get_mat() derives when needed.
ComparesMatrices(a, b, uniquify) ==
  /\ SignificantBits(Flags(a)) = 0 /\ SignificantBits(Flags(b)) = 0
  /\ uniquify

\* compare_to(other, uniquify_matrix): the invalid value apart from the
\* transforms, then the transforms by what operator == compares or, when
\* matrices are not to be made unique, by their addresses.
compare_to2(a, b, uniquify) ==
  LET fa == SignificantBits(Flags(a))
      fb == SignificantBits(Flags(b))
  IN IF fa # fb THEN (IF fa < fb THEN 0 - 1 ELSE 1)
     ELSE IF fa # 0 THEN 0
     ELSE IF uniquify
       THEN CHOOSE c \in {CompareSeq(m[1], m[2]) :
                           m \in {<<<<Dimension(a)>> \o get_mat(a).out,
                                    <<Dimension(b)>> \o get_mat(b).out>>}} : TRUE
     ELSE IF a < b THEN 0 - 1 ELSE IF a > b THEN 1 ELSE 0

\* A slip: the values are told apart by their addresses.
compare_to_Address(a, b) == compare_to2(a, b, FALSE)

\* A slip: operator != is returned for the comparison.
compare_to_Unequal(a, b) == IF Equal(val[a], val[b]) THEN 0 ELSE 1

compare_to(a, b) == compare_to2(a, b, uniquify_matrix)

\* A caller compares two values it holds, and keeps the result (keep) or
\* the result of an earlier comparison.
CompareTo(a, b, keep) ==
  /\ held[a] > 0 /\ held[b] > 0
  /\ \E c \in {compare_to(a, b)} :
       /\ last' = [NoCall EXCEPT !.op = "compare_to", !.x = a, !.y = b, !.out = <<c>>]
       /\ memo' = IF keep THEN [a |-> a, b |-> b, r |-> c] ELSE memo
  /\ flags' = IF ComparesMatrices(a, b, uniquify_matrix)
                THEN [i \in Ids |-> IF i \in {a, b} THEN get_mat(i).f ELSE flags[i]]
                ELSE flags
  /\ UNCHANGED <<HeapVars, held, node, Statics, thr, owner, Lazy>>

\* The caller lets go of a pointer, and forgets the comparison of a
\* destroyed instance.
CompareDrop(i) ==
  /\ held[i] > 0
  /\ Commit(Released(unref(Heap, i), i))
  /\ held' = [held EXCEPT ![i] = @ - 1]
  /\ flags' = IF i \in alive' THEN flags ELSE [flags EXCEPT ![i] = {}]
  /\ last' = NoCall
  /\ memo' = IF i \in {memo.a, memo.b} /\ i \notin alive' THEN NoMemo ELSE memo
  /\ UNCHANGED <<node, Statics, thr, owner, Lazy>>

\* The caller holds no instance twice.
HoldsOnce == \A i \in Ids : held[i] <= 1

\* One caller that makes values given in each way, compares them and
\* derives their representations.
CompareNext ==
  \/ HoldsOnce /\ MakeInvalid
  \/ HoldsOnce /\ \E l \in AccMats : MakeMat(l)
  \/ HoldsOnce /\ \E pos \in {1} : MakePos(pos)
  \/ \E a, b \in Ids, keep \in BOOLEAN : CompareTo(a, b, keep)
  \/ \E i \in Ids : Derive("get_hpr", i, FALSE)
  \/ \E i \in Ids : CompareDrop(i)

CompareSpec == Init /\ [][CompareNext]_vars

\* One caller that makes values, composes them and calls their accessors,
\* get_hash() among them.
ImmutableNext ==
  \/ HoldsOnce /\ \E pos \in {1} : MakePos(pos)
  \/ HoldsOnce /\ \E a, b \in Ids : Quiet(DoCompose(a, b))
  \/ HoldsOnce /\ \E a, b \in Ids : Quiet(DoInvertCompose(a, b))
  \/ \E i \in Ids, keep \in BOOLEAN : Derive("get_hash", i, keep)
  \/ \E i \in Ids : Derive("get_mat", i, FALSE)
  \/ \E i \in Ids : DeriveDrop(i)

ImmutableSpec == Init /\ [][ImmutableNext]_vars

\* ---------------------------------------------------- walking the caches
\* The highest occupied slot of a cache, counted from one; 0 when it is empty.
RECURSIVE TopSlot(_, _)
TopSlot(cache, n) ==
  IF n = 0 THEN 0 ELSE IF InSlot(cache, n - 1) # {} THEN n ELSE TopSlot(cache, n - 1)

\* A caller walks a cache of a value it holds, the composition cache (m is
\* "c") or the invert composition cache: n from 0 to size - 1, as the
\* comments of get_composition_cache_size() say.  n0: the size returned;
\* n1: the slots a walk has to visit; e0: the entries the walk has found;
\* e1: the entries there are; asserted: a slot out of range was asked for.
WalkCache(m, a) ==
  /\ held[a] > 0
  /\ \E size \in {IF m = "c" THEN get_composition_cache_size(Heap, a)
                              ELSE get_invert_composition_cache_size(Heap, a)},
        cache \in {IF m = "c" THEN cc[a] ELSE ic[a]} :
       last' = [NoCall EXCEPT
                  !.op = IF m = "c" THEN "walk_composition_cache"
                                    ELSE "walk_invert_composition_cache",
                  !.x = a, !.n0 = size, !.n1 = TopSlot(cache, NumSlots),
                  !.e0 = Cardinality(
                           {n \in 0 .. size - 1 :
                              (IF m = "c" THEN get_composition_cache_source(Heap, a, n)
                               ELSE get_invert_composition_cache_source(Heap, a, n)) # Null}),
                  !.e1 = Cardinality(cache),
                  !.asserted = size > NumSlots]
  /\ UNCHANGED <<HeapVars, held, node, memo, Globals>>

\* One caller that composes values and walks their caches.
WalkNext ==
  \/ \E pos \in LifePos : MakePos(pos)
  \/ \E scale \in LifeScale : MakeScale3(scale)
  \/ \E a, b \in Ids : Compose(a, b)
  \/ \E a, b \in Ids : Quiet(DoInvertCompose(a, b))
  \/ \E m \in {"c", "i"}, a \in Ids : WalkCache(m, a)
  \/ \E i \in Ids : Drop(i)

WalkSpec == Init /\ [][WalkNext]_vars

\* A caller calls a.compose(b) or a.invert_compose(b) and counts the entries
\* of a's two caches before and after.  n0, n1: the entries of the cache the
\* call does not use; e0, e1: the entries of the cache it uses.
CountedCall(op, a, b) ==
  /\ CanCall(a, b)
  /\ \E r \in {IF op = "compose" THEN compose(Heap, a, b)
                                  ELSE invert_compose(Heap, a, b)} :
       /\ Cardinality(AllEntries(r.h)) <= MaxEntries
       /\ Return(r)
       /\ last' =
            IF op = "compose"
              THEN [NoCall EXCEPT
                      !.op = "compose, counted", !.x = a, !.y = b, !.ret = r.ret,
                      !.n0 = get_invert_composition_cache_num_entries(Heap, a),
                      !.n1 = get_invert_composition_cache_num_entries(r.h, a),
                      !.e0 = get_composition_cache_num_entries(Heap, a),
                      !.e1 = get_composition_cache_num_entries(r.h, a)]
              ELSE [NoCall EXCEPT
                      !.op = "invert_compose, counted", !.x = a, !.y = b, !.ret = r.ret,
                      !.n0 = get_composition_cache_num_entries(Heap, a),
                      !.n1 = get_composition_cache_num_entries(r.h, a),
                      !.e0 = get_invert_composition_cache_num_entries(Heap, a),
                      !.e1 = get_invert_composition_cache_num_entries(r.h, a)]
  /\ UNCHANGED memo

\* One caller that composes values and counts the entries of their caches.
CountNext ==
  \/ \E pos \in LifePos : MakePos(pos)
  \/ \E scale \in LifeScale : MakeScale3(scale)
  \/ \E op \in {"compose", "invert_compose"}, a, b \in Ids : CountedCall(op, a, b)
  \/ \E i \in Ids : Drop(i)

CountSpec == Init /\ [][CountNext]_vars

\* ------------------------------------------------- derivation by threads
\* The accessors whose calc_ method is inline: the flag they test, the
\* field they return and the derivation they run under _lock.
LazyOps == {"get_scale", "get_hpr", "get_mat"}

KnownFlag(op) ==
  CASE op = "get_scale" -> "components_known"
    [] op = "get_hpr" -> "hpr_known"
    [] op = "get_mat" -> "mat_known"

FieldOf(op) ==
  CASE op = "get_scale" -> "_scale"
    [] op = "get_hpr" -> "_hpr"
    [] op = "get_mat" -> "_mat"

DoCalc(op, F, v) ==
  CASE op = "get_scale" -> do_calc_components(F, v)
    [] op = "get_hpr" -> do_calc_hpr(F, v)
    [] op = "get_mat" -> do_calc_mat(F, v)

FieldNames ==
  {"_pos", "_hpr", "_quat", "_norm_quat", "_scale", "_shear", "_mat", "_hash"}

IsSet(x) == x \notin {Unset, UnsetMat}

\* The fields the constructor of v has written.
GivenFields(v) == {n \in FieldNames : IsSet(Field(GivenFlags(v), v, n))}

\* The fields that are written once the derivation of op has run.
CalcFields(op, F, v) == {n \in FieldNames : IsSet(Field(DoCalc(op, F, v), v, n))}

\* What a thread reads from a field of i: what was stored there, if anything was.
ReadField(i, name) ==
  IF name \in GivenFields(val[i]) \cup cell[i]
    THEN Field(Flags(i), val[i], name)
    ELSE IF name = "_mat" THEN UnsetMat ELSE Unset

LStep(t, pc) ==
  /\ thr' = [thr EXCEPT ![t].pc = pc]
  /\ UNCHANGED <<HeapVars, Caller, Statics, owner>>

\* Thread t calls accessor op of an instance the caller holds.
LCall(t, op, i) ==
  /\ thr[t].pc = "idle" /\ held[i] > 0
  /\ thr' = [thr EXCEPT ![t] = [NoThread EXCEPT !.pc = "check", !.op = op, !.c = i]]
  /\ UNCHANGED <<HeapVars, Caller, Statics, owner, flags, Lazy>>

\* check_components(), check_hpr(), check_mat(): the flag is tested without
\* the lock.
LCheck(t) ==
  /\ thr[t].pc = "check"
  /\ LStep(t, IF KnownFlag(thr[t].op) \in Flags(thr[t].c) THEN "read" ELSE "lock")
  /\ UNCHANGED <<flags, Lazy>>

\* calc_components(), calc_hpr(), calc_mat(): LightMutexHolder holder(_lock).
LLock(t) ==
  /\ thr[t].pc = "lock" /\ lock[thr[t].c] = Null
  /\ lock' = [lock EXCEPT ![thr[t].c] = t]
  /\ LStep(t, "calc")
  /\ UNCHANGED <<flags, cell>>

\* The derivation finds that another thread has computed the representation.
LCalcSkip(t) ==
  /\ thr[t].pc = "calc" /\ KnownFlag(thr[t].op) \in Flags(thr[t].c)
  /\ LStep(t, "unlock")
  /\ UNCHANGED <<flags, Lazy>>

\* The derivation stores the fields and the flags.  _flags and the fields are
\* plain members that other threads read without the lock, so the two stores
\* reach another thread in either order.
LStoreFields(t) ==
  /\ \/ thr[t].pc = "calc" /\ KnownFlag(thr[t].op) \notin Flags(thr[t].c)
     \/ thr[t].pc = "calc_fields"
  /\ cell' = [cell EXCEPT ![thr[t].c] =
                @ \cup CalcFields(thr[t].op, Flags(thr[t].c), val[thr[t].c])]
  /\ LStep(t, IF thr[t].pc = "calc" THEN "calc_flags" ELSE "unlock")
  /\ UNCHANGED <<flags, lock>>

LStoreFlags(t) ==
  /\ \/ thr[t].pc = "calc" /\ KnownFlag(thr[t].op) \notin Flags(thr[t].c)
     \/ thr[t].pc = "calc_flags"
  /\ flags' = [flags EXCEPT ![thr[t].c] =
                 DoCalc(thr[t].op, Flags(thr[t].c), val[thr[t].c])]
  /\ LStep(t, IF thr[t].pc = "calc" THEN "calc_fields" ELSE "unlock")
  /\ UNCHANGED Lazy

\* The LightMutexHolder goes out of scope.
LUnlock(t) ==
  /\ thr[t].pc = "unlock"
  /\ lock' = [lock EXCEPT ![thr[t].c] = Null]
  /\ LStep(t, "read")
  /\ UNCHANGED <<flags, cell>>

\* The accessor returns the field.
LRead(t) ==
  /\ thr[t].pc = "read"
  /\ thr' = [thr EXCEPT ![t].pc = "done",
                         ![t].ret = ReadField(thr[t].c, FieldOf(thr[t].op))]
  /\ UNCHANGED <<HeapVars, Caller, Statics, owner, flags, Lazy>>

LReturn(t) ==
  /\ thr[t].pc = "done"
  /\ thr' = [thr EXCEPT ![t] = NoThread]
  /\ UNCHANGED <<HeapVars, Caller, Statics, owner, flags, Lazy>>

\* A caller makes a matrix or a value given by a quaternion, and threads
\* call its accessors at the same time.
LazyNext ==
  \/ \E l \in AccMats : HoldsNone /\ MakeMat(l)
  \/ \E quat \in {1} : HoldsNone /\ MakeQuat(quat)
  \/ \E t \in Threads, op \in LazyOps, i \in Ids : LCall(t, op, i)
  \/ \E t \in Threads : LCheck(t)
  \/ \E t \in Threads : LLock(t)
  \/ \E t \in Threads : LCalcSkip(t)
  \/ \E t \in Threads : LStoreFields(t)
  \/ \E t \in Threads : LStoreFlags(t)
  \/ \E t \in Threads : LUnlock(t)
  \/ \E t \in Threads : LRead(t)
  \/ \E t \in Threads : LReturn(t)

LazySpec == Init /\ [][LazyNext]_vars

\* A specification of the lifetime in which the eviction and the sweep are
\* not postponed for ever: the system must walk the zero-ordinary-reference
\* set, and a walk passes every member of it.
LiveSpec ==
  /\ Init
  /\ [][Next]_vars
  /\ \A i \in Ids : WF_vars(Quiet(Evict(i)))
  /\ WF_vars(Quiet(Sweep))

\* ------------------------------------------------------------- lock order
\* The locks the calls take, in the order they take them; each is held to
\* the end of the call.

\* A slip: the derivation goes to the registry under the instance's lock.
calc_locks_Registry(op) == <<"_lock", "_states_lock">>

\* calc_components(), calc_hpr(), calc_mat(): LightMutexHolder holder(_lock).
calc_locks(op) == <<"_lock">>

\* check_components(), check_hpr(), check_mat(): calc_ when the flag is clear.
check_locks(op, i) == IF KnownFlag(op) \in Flags(i) THEN <<>> ELSE calc_locks(op)

\* get_composition_cache_num_entries(): LightReMutexHolder holder(*_states_lock).
num_entries_locks == <<"_states_lock">>

\* The factories and compose() work under _states_lock; compose() reads the
\* matrices of its operands under it.
LocksOf(op, i) ==
  CASE op = "make_pos" -> <<"_states_lock">>
    [] op = "compose" -> <<"_states_lock">> \o check_locks("get_mat", i)
    [] op = "get_composition_cache_num_entries" -> num_entries_locks
    [] op = "get_mat" -> check_locks("get_mat", i)

LockOps == {"make_pos", "compose", "get_composition_cache_num_entries", "get_mat"}

\* There is room for what the call may allocate.
Room(op) ==
  /\ op = "make_pos" => next <= MaxId /\ TotalHeld < MaxRefs
  /\ op = "compose" => next <= MaxId /\ Cardinality(AllEntries(Heap)) < MaxEntries

\* Thread t calls op on a value the callers hold (make_pos is static).
KCall(t, op, i) ==
  /\ thr[t].pc = "idle"
  /\ IF op = "make_pos" THEN i = identity_state ELSE held[i] > 0
  /\ Room(op)
  /\ thr' = [thr EXCEPT ![t] = [NoThread EXCEPT !.pc = "locking", !.op = op, !.c = i,
                                                !.locks = LocksOf(op, i)]]
  /\ UNCHANGED <<HeapVars, Caller, Statics, owner, flags, Lazy>>

\* The thread takes the next lock of its call: the re-entrant registry lock
\* when it is free or its own, the lock of the instance when it is free.
KAcquire(t) ==
  /\ thr[t].pc = "locking" /\ thr[t].locks # <<>>
  /\ IF Head(thr[t].locks) = "_states_lock"
       THEN CanAcquire(t) /\ owner' = t /\ UNCHANGED lock
       ELSE /\ lock[thr[t].c] = Null
            /\ lock' = [lock EXCEPT ![thr[t].c] = t]
            /\ UNCHANGED owner
  /\ thr' = [thr EXCEPT ![t].locks = Tail(@)]
  /\ UNCHANGED <<HeapVars, Caller, Statics, flags, cell>>

\* The call does its work under the locks it has taken.  The caller keeps
\* the pointer make_pos() returns and lets go of the one compose() returns.
KWork(t) ==
  /\ thr[t].pc = "locking" /\ thr[t].locks = <<>>
  /\ \E op \in {thr[t].op}, c \in {thr[t].c} :
       /\ IF op = "make_pos" /\ Room(op)
            THEN \E r \in {make_pos(Heap, 1)} :
                   /\ Commit(RefOnly(r.h, r.ret))
                   /\ held' = [held EXCEPT ![r.ret] = @ + 1]
            ELSE IF op = "compose" /\ Room(op)
              THEN Commit(compose(Heap, c, c).h) /\ UNCHANGED held
              ELSE UNCHANGED <<HeapVars, held>>
       /\ flags' = IF op \in {"compose", "get_mat"}
                     THEN [flags EXCEPT ![c] = get_mat(c).f]
                     ELSE flags
       /\ thr' = [thr EXCEPT ![t].pc = "leaving",
                              ![t].ret = IF op = "get_composition_cache_num_entries"
                                           THEN get_composition_cache_num_entries(Heap, c)
                                           ELSE Null]
  /\ UNCHANGED <<node, last, memo, Statics, owner, Lazy>>

\* The holders are destroyed: the thread releases the locks it has taken.
KRelease(t) ==
  /\ thr[t].pc = "leaving"
  /\ owner' = IF owner = t THEN Null ELSE owner
  /\ lock' = [i \in Ids |-> IF lock[i] = t THEN Null ELSE lock[i]]
  /\ thr' = [thr EXCEPT ![t] = NoThread]
  /\ UNCHANGED <<HeapVars, Caller, Statics, flags, cell>>

\* Threads that call a factory, compose(), the cache introspection and an
\* accessor at the same time.
LockNext ==
  \E t \in Threads :
    \/ \E op \in LockOps, i \in Ids : KCall(t, op, i)
    \/ KAcquire(t)
    \/ KWork(t)
    \/ KRelease(t)

LockSpec == Init /\ [][LockNext]_vars

\* ------------------------------------------ uniform and identity scale
\* The scale of one value as LVecBase3 has it, each component counted in
\* tenths; the rest of the model abstracts a scale to one scalar.

IS_NEARLY_EQUAL(a, b) == Abs(a - b) < NearlyZero

\* _shear.almost_equal(LVecBase3::zero())
AlmostZero(v) == \A k \in 1 .. 3 : IS_NEARLY_EQUAL(v[k], 0)

NonzeroShear(p) == IF ~AlmostZero(p._shear) THEN {"has_nonzero_shear"} ELSE {}

\* A slip: the test for the identity scale is not nested in the test for a
\* uniform scale.
check_uniform_scale_Flat(p) ==
  [p EXCEPT !._flags =
     @ \cup (IF IS_NEARLY_EQUAL(p._scale[1], p._scale[2]) /\
                IS_NEARLY_EQUAL(p._scale[1], p._scale[3])
               THEN {"uniform_scale"} ELSE {})
       \cup (IF IS_NEARLY_EQUAL(p._scale[1], ScaleOne)
               THEN {"identity_scale"} ELSE {})
       \cup NonzeroShear(p)]

check_uniform_scale(p) ==
  [p EXCEPT !._flags =
     @ \cup (IF IS_NEARLY_EQUAL(p._scale[1], p._scale[2]) /\
                IS_NEARLY_EQUAL(p._scale[1], p._scale[3])
               THEN {"uniform_scale"} \cup
                    (IF IS_NEARLY_EQUAL(p._scale[1], ScaleOne)
                       THEN {"identity_scale"} ELSE {})
               ELSE {})
       \cup NonzeroShear(p)]

check_uniform_scale2d(p) ==
  IF IS_NEARLY_EQUAL(p._scale[1], p._scale[2])
    THEN [p EXCEPT !._scale[3] = p._scale[1],
                   !._flags = @ \cup {"uniform_scale"} \cup
                     (IF IS_NEARLY_EQUAL(p._scale[1], ScaleOne)
                        THEN {"identity_scale"} ELSE {}) \cup NonzeroShear(p)]
    ELSE [p EXCEPT !._flags = @ \cup NonzeroShear(p)]

\* The value of the rest of the model that stands for the probed value.
ProbeValue(p) ==
  Value(p.kind, "none", Logical(1, 0, 0, 0, IF p.dec THEN 0 ELSE 1),
        "is_2d" \in p._flags)

\* check_components() on the probed value: a derivation that finds the
\* components stores the scale and the shear the matrix has and looks at them.
ProbeCheck(p) ==
  LET F == check_components(p._flags, ProbeValue(p)) IN
  IF "has_components" \in F \ p._flags
    THEN check_uniform_scale([p EXCEPT !._flags = F, !._scale = p.hidden])
    ELSE [p EXCEPT !._flags = F]

has_identity_scale(p) ==
  LET q == ProbeCheck(p)
  IN [q EXCEPT !.op = "has_identity_scale", !.yes = "identity_scale" \in q._flags,
               !.asserted = FALSE, !.out = <<>>]

has_uniform_scale(p) ==
  LET q == ProbeCheck(p)
  IN [q EXCEPT !.op = "has_uniform_scale", !.yes = "uniform_scale" \in q._flags,
               !.asserted = FALSE, !.out = <<>>]

\* nassertr(has_uniform_scale(), _scale[0]); return _scale[0]; a _scale that
\* was never stored is returned as <<>>.
get_uniform_scale(p) ==
  LET q == ProbeCheck(p)
  IN [q EXCEPT !.op = "get_uniform_scale", !.yes = FALSE,
               !.asserted = ~has_uniform_scale(q).yes,
               !.out = IF q._scale = <<>> THEN <<>> ELSE <<q._scale[1]>>]

\* The scales and shears the probed values are given.
ScaleVals == {ScaleOne - 1, ScaleOne, ScaleOne + 1, 2 * ScaleOne}
ScaleVecs == {<<a, b, c>> : a, b, c \in ScaleVals}
ShearVecs == {<<1, 0, 0>>, <<0, 5, 0>>}

\* A value is constructed from components, in three or in two dimensions.
ProbeComponents(scale, shear, twod) ==
  /\ probe' =
       LET p == [NoProbe EXCEPT
                   !.kind = "comp", !.dec = TRUE, !.hidden = scale,
                   !._scale = scale, !._shear = shear,
                   !._flags = {"components_given", "components_known",
                               "has_components"} \cup
                              (IF twod THEN {"is_2d"} ELSE {})]
       IN IF twod THEN check_uniform_scale2d(p) ELSE check_uniform_scale(p)
  /\ UNCHANGED <<Transforms, chart, flame>>

\* A value is constructed from a matrix, which has components or has none.
ProbeMat(scale, shear, dec) ==
  /\ probe' = [NoProbe EXCEPT !.kind = "mat", !.dec = dec, !.hidden = scale,
                              !._shear = shear, !._flags = {"mat_known"}]
  /\ UNCHANGED <<Transforms, chart, flame>>

\* The two singletons as their constructors leave them.
ProbeSingleton(kind) ==
  /\ probe' =
       IF kind = "identity"
         THEN [NoProbe EXCEPT
                 !.kind = kind, !.dec = TRUE,
                 !._scale = <<ScaleOne, ScaleOne, ScaleOne>>, !._shear = <<0, 0, 0>>,
                 !._flags = GivenFlags(IdentityValue) \cup
                            {"uniform_scale", "identity_scale"}]
         ELSE [NoProbe EXCEPT !.kind = kind, !._flags = GivenFlags(InvalidValue)]
  /\ UNCHANGED <<Transforms, chart, flame>>

\* An accessor of the scale is called on the probed value.
ProbeCall(op) ==
  /\ probe.kind # "none"
  /\ probe' = CASE op = "has_identity_scale" -> has_identity_scale(probe)
                [] op = "has_uniform_scale" -> has_uniform_scale(probe)
                [] OTHER -> get_uniform_scale(probe)
  /\ UNCHANGED <<Transforms, chart, flame>>

ScaleNext ==
  \/ \E scale \in ScaleVecs, shear \in ShearVecs, twod \in BOOLEAN :
       ProbeComponents(scale, shear, twod)
  \/ \E scale \in ScaleVecs, dec \in BOOLEAN : ProbeMat(scale, <<0, 0, 0>>, dec)
  \/ \E kind \in {"identity", "invalid"} : ProbeSingleton(kind)
  \/ \E op \in {"has_identity_scale", "has_uniform_scale", "get_uniform_scale"} :
       ProbeCall(op)

\* Values are constructed and asked for their scale.
ScaleSpec == Init /\ [][ScaleNext]_vars

\* -------------------------------------------- reference counts, there and back

\* The three counts of instance i in heap H.
Counts(H, i) == <<H.cref[i], H.nref[i], H.ref[i]>>

\* The call op on instance i is recorded: its counts before the call and in
\* the heap H the call leaves, what it returned (res), and the instance the
\* caller holds a cache reference to (z).  The memo keeps the call before.
Recorded(op, i, H, res, z) ==
  /\ last' = [NoCall EXCEPT !.op = op, !.x = i, !.z = z, !.yes = res,
                            !.out = Counts(Heap, i) \o Counts(H, i)]
  /\ memo' = [a |-> last.x, b |-> last.op, r |-> last.out]

\* A call that is no call on the counts.
Other(op) ==
  /\ last' = [NoCall EXCEPT !.op = op, !.z = last.z]
  /\ memo' = [a |-> last.x, b |-> last.op, r |-> last.out]

RCacheRef(i) ==
  /\ held[i] > 0 /\ last.z = Null
  /\ \E H \in {cache_ref(Heap, i)} :
       /\ Commit(H)
       /\ Recorded("cache_ref", i, H, TRUE, i)
  /\ UNCHANGED <<held, node, Globals>>

RCacheUnref(i) ==
  /\ last.z = i
  /\ \E u \in {cache_unref(Heap, i)} :
       /\ Commit(Released(u, i))
       /\ Recorded("cache_unref", i, u.h, u.res, Null)
  /\ UNCHANGED <<held, node, Globals>>

RNodeRef(i) ==
  /\ NodeRef(i)
  /\ Recorded("node_ref", i, node_ref(Heap, i), TRUE, last.z)

RNodeUnref(i) ==
  /\ NodeUnref(i)
  /\ \E u \in {node_unref(Heap, i)} : Recorded("node_unref", i, u.h, u.res, last.z)

RefNext ==
  \/ \E pos \in LifePos : DoMakePos(pos) /\ Other("make_pos")
  \/ \E a, b \in Ids : DoCompose(a, b) /\ Other("compose")
  \/ \E i \in Ids : DoDrop(i) /\ Other("drop")
  \/ \E i \in Ids : RCacheRef(i)
  \/ \E i \in Ids : RCacheUnref(i)
  \/ \E i \in Ids : RNodeRef(i)
  \/ \E i \in Ids : RNodeUnref(i)

\* A caller takes and gives back cache references and node references.
RefSpec == Init /\ [][RefNext]_vars

\* ------------------------------------------------- the strip chart window
\* PStatGraph, PStatStripChart and GtkStatsGraph, the base classes, are not
\* part of the source; what the strip chart calls of them is modelled after
\* the calls.  A handler is an operator from the window to the window.

InGraphX(x) == x >= 0 /\ x < XSize
InGraphY(y) == y >= 0 /\ y < YSize

\* PStatStripChart::pixel_to_height
pixel_to_height(c, y) ==
  Norm(c._value_height[1] * (YSize - y), c._value_height[2] * YSize)

\* PStatGraph::find_user_guide_bar: the first bar between the two heights.
find_user_guide_bar(c, from, to) ==
  LET S == {n \in 1 .. Len(c._user_guide_bars) :
              Leq(from, c._user_guide_bars[n]) /\ Leq(c._user_guide_bars[n], to)}
  IN IF S = {} THEN 0 - 1 ELSE (CHOOSE n \in S : \A m \in S : n <= m) - 1

HasBar(c, n) == n >= 0 /\ n < Len(c._user_guide_bars)

\* PStatGraph::add_user_guide_bar; the new bar's index is the old length.
add_user_guide_bar(c, height) ==
  [c EXCEPT !._user_guide_bars = Append(@, height)]

\* PStatGraph::move_user_guide_bar
move_user_guide_bar(c, n, height) ==
  IF HasBar(c, n) THEN [c EXCEPT !._user_guide_bars[n + 1] = height]
  ELSE [c EXCEPT !.ev.bad = TRUE]

\* PStatGraph::remove_user_guide_bar
remove_user_guide_bar(c, n) ==
  IF HasBar(c, n)
    THEN [c EXCEPT !._user_guide_bars =
            SubSeq(@, 1, n) \o SubSeq(@, n + 2, Len(@))]
    ELSE [c EXCEPT !.ev.bad = TRUE]

\* GtkStatsGraph::set_drag_mode
Graph_set_drag_mode(c, drag_mode) ==
  [c EXCEPT !._drag_mode = drag_mode, !.ev.set = Append(@, drag_mode)]

\* A slip: smoothing is not restored from the check box.
set_drag_mode_Keep(c, drag_mode) ==
  LET d == Graph_set_drag_mode(c, drag_mode)
  IN IF d._drag_mode \in {"DM_scale", "DM_sizing"}
       THEN [d EXCEPT !._average_mode = FALSE] ELSE d

set_drag_mode(c, drag_mode) ==
  LET d == Graph_set_drag_mode(c, drag_mode)
  IN IF d._drag_mode \in {"DM_scale", "DM_sizing"}
       THEN [d EXCEPT !._average_mode = FALSE]
       ELSE [d EXCEPT !._average_mode = d._smooth_check_box]

\* What GtkStatsGraph::consider_drag_start may return.
BaseModes == {"DM_none", "DM_sizing"}

\* A slip: the mode for a guide bar is returned though none was found.
consider_drag_start_Always(c, graph_x, graph_y, b) ==
  IF InGraphX(graph_x) /\ InGraphY(graph_y)
    THEN [c |-> [c EXCEPT !._drag_guide_bar =
                    find_user_guide_bar(c, pixel_to_height(c, graph_y + 2),
                                        pixel_to_height(c, graph_y - 2))],
          mode |-> "DM_guide_bar"]
    ELSE [c |-> c, mode |-> IF InGraphX(graph_x) THEN "DM_new_guide_bar" ELSE b]

\* [c: the window, mode: the mode returned]; b: what the base class returns.
consider_drag_start(c, graph_x, graph_y, b) ==
  IF InGraphX(graph_x)
    THEN IF InGraphY(graph_y)
      THEN LET n == find_user_guide_bar(c, pixel_to_height(c, graph_y + 2),
                                        pixel_to_height(c, graph_y - 2))
           IN [c |-> [c EXCEPT !._drag_guide_bar = n],
               mode |-> IF n >= 0 THEN "DM_guide_bar" ELSE b]
      ELSE [c |-> c, mode |-> "DM_new_guide_bar"]
    ELSE [c |-> c, mode |-> b]

\* GtkStatsGraph::handle_motion
Graph_handle_motion(c, graph_x, graph_y, b) ==
  LET r == consider_drag_start(c, graph_x, graph_y, b)
  IN [r.c EXCEPT !._potential_drag_mode = r.mode]

\* PStatStripChart::set_collector_index
set_collector_index(c, collector_index) ==
  [c EXCEPT !._collector_index = collector_index]

\* A slip: the top label always goes up to the parent.
on_click_label_Up(c, collector_index) ==
  LET k == IF collector_index < 0 THEN c._collector_index ELSE collector_index IN
  IF k = c._collector_index /\ k # 0
    THEN IF k \in c.known THEN set_collector_index(c, ParentOf(k)) ELSE c
    ELSE set_collector_index(c, k)

on_click_label(c, collector_index) ==
  LET k == IF collector_index < 0 THEN c._collector_index ELSE collector_index IN
  IF k = c._collector_index /\ k # 0
    THEN IF k \in c.known
           THEN IF ParentOf(k) = 0 /\ c.show_level THEN c
                ELSE set_collector_index(c, ParentOf(k))
           ELSE c
    ELSE set_collector_index(c, k)

\* set_vertical_scale()
set_vertical_scale(c, value_height) ==
  [c EXCEPT !._value_height = value_height, !.ev.drawn = TRUE]

\* A slip: the bar is created wherever the pointer is.
handle_motion_Anywhere(c, graph_x, graph_y, b) ==
  IF c._drag_mode = "DM_new_guide_bar"
    THEN [add_user_guide_bar(set_drag_mode(c, "DM_guide_bar"),
                             pixel_to_height(c, graph_y))
            EXCEPT !._drag_guide_bar = Len(c._user_guide_bars)]
    ELSE Graph_handle_motion(c, graph_x, graph_y, b)

handle_motion(c, graph_x, graph_y, b) ==
  IF c._drag_mode = "DM_scale"
    THEN IF YSize - graph_y > 0
           THEN set_vertical_scale(c, Norm(c._drag_scale_start[1] * YSize,
                                           c._drag_scale_start[2] * (YSize - graph_y)))
           ELSE c
  ELSE IF c._drag_mode = "DM_new_guide_bar" /\ InGraphY(graph_y)
    THEN [add_user_guide_bar(set_drag_mode(c, "DM_guide_bar"),
                             pixel_to_height(c, graph_y))
            EXCEPT !._drag_guide_bar = Len(c._user_guide_bars)]
  ELSE IF c._drag_mode = "DM_guide_bar"
    THEN move_user_guide_bar(c, c._drag_guide_bar, pixel_to_height(c, graph_y))
  ELSE Graph_handle_motion(c, graph_x, graph_y, b)

\* GtkStatsGraph::handle_button_press
Graph_handle_button_press(c) ==
  IF c._potential_drag_mode # "DM_none"
    THEN set_drag_mode(c, c._potential_drag_mode) ELSE c

\* under: what get_collector_under_pixel() returns.
handle_button_press(c, graph_x, graph_y, double_click, under) ==
  IF InGraphX(graph_x) /\ InGraphY(graph_y) /\ double_click
    THEN on_click_label(c, under)
  ELSE IF InGraphX(graph_x) /\ InGraphY(graph_y) /\ c._potential_drag_mode = "DM_none"
    THEN [set_drag_mode(c, "DM_scale")
            EXCEPT !._drag_scale_start = pixel_to_height(c, graph_y)]
  ELSE IF c._potential_drag_mode = "DM_guide_bar" /\ c._drag_guide_bar >= 0
    THEN set_drag_mode(c, "DM_guide_bar")
  ELSE Graph_handle_button_press(c)

\* A slip: the bar is moved wherever the button is released.
handle_button_release_Move(c, graph_x, graph_y, b) ==
  IF c._drag_mode = "DM_guide_bar"
    THEN handle_motion(
           set_drag_mode(move_user_guide_bar(c, c._drag_guide_bar,
                                             pixel_to_height(c, graph_y)),
                         "DM_none"),
           graph_x, graph_y, b)
    ELSE handle_motion(set_drag_mode(c, "DM_none"), graph_x, graph_y, b)

\* GtkStatsGraph::handle_button_release is the last case.
handle_button_release(c, graph_x, graph_y, b) ==
  IF c._drag_mode = "DM_scale"
    THEN handle_motion(set_drag_mode(c, "DM_none"), graph_x, graph_y, b)
  ELSE IF c._drag_mode = "DM_guide_bar"
    THEN handle_motion(
           set_drag_mode(
             IF graph_y < 0 \/ graph_y >= YSize
               THEN remove_user_guide_bar(c, c._drag_guide_bar)
               ELSE move_user_guide_bar(c, c._drag_guide_bar,
                                        pixel_to_height(c, graph_y)),
             "DM_none"),
           graph_x, graph_y, b)
  ELSE handle_motion(set_drag_mode(c, "DM_none"), graph_x, graph_y, b)

\* The check box has been toggled to active.
toggled_callback(c, active) ==
  [c EXCEPT !._smooth_check_box = active, !._average_mode = active]

\* A slip: the bit that shows the units is taken from the mask.
set_time_units_Mask(c, unit_mask) ==
  IF c._guide_bar_units \cap {"GBU_hz", "GBU_ms"} # {}
    THEN [c EXCEPT !._guide_bar_units = unit_mask \ {"GBU_named"}, !.ev.drawn = TRUE]
    ELSE c

set_time_units(c, unit_mask) ==
  LET old_unit_mask == c._guide_bar_units IN
  IF old_unit_mask \cap {"GBU_hz", "GBU_ms"} # {}
    THEN [c EXCEPT !._guide_bar_units =
                      (unit_mask \cap {"GBU_hz", "GBU_ms"}) \cup
                      (old_unit_mask \cap {"GBU_show_units"}),
                   !.ev.drawn = TRUE]
    ELSE c

\* The window takes up an event: what the handlers say of it starts anew.
At(c, op, x, y) == [c EXCEPT !.ev = [NoEvent EXCEPT !.op = op, !.x = x, !.y = y]]

\* The vertical scale and the number of guide bars are within the bounds.
Within(c) ==
  /\ c._value_height[1] <= MaxScale /\ c._value_height[2] <= MaxScale
  /\ Len(c._user_guide_bars) <= MaxBars

\* The pixels the pointer may be at: in the graph and around it.
PointerX == (0 - 1) .. XSize
PointerY == (0 - 1) .. YSize

\* The events of the strip chart; the pointer is in this window alone.
Press(x, y, double_click, under) ==
  /\ flame.ev.op = "none"
  /\ chart' = handle_button_press(At(chart, "handle_button_press", 0, y),
                                  x, y, double_click, under)
  /\ UNCHANGED <<Transforms, flame, probe>>

Release(x, y, b) ==
  /\ flame.ev.op = "none"
  /\ chart' = handle_button_release(At(chart, "handle_button_release", 0, y), x, y, b)
  /\ UNCHANGED <<Transforms, flame, probe>>

Motion(x, y, b) ==
  /\ flame.ev.op = "none"
  /\ chart' = handle_motion(At(chart, "handle_motion", 0, y), x, y, b)
  /\ Within(chart')
  /\ UNCHANGED <<Transforms, flame, probe>>

Toggled ==
  /\ flame.ev.op = "none"
  /\ chart' = toggled_callback(At(chart, "toggled_callback", 0, 0),
                               ~chart._smooth_check_box)
  /\ UNCHANGED <<Transforms, flame, probe>>

\* ------------------------------------------------- the flame graph window
\* PStatFlameGraph and WinStatsGraph, the base classes, are not part of the
\* source; what the flame graph calls of them is modelled after the calls.

\* PStatFlameGraph::pixel_to_height
Flame_pixel_to_height(f, x) == Norm(x, XSize)

\* int16_t x = LOWORD(lparam)
Int16(w) == IF w >= 32768 THEN w - 65536 ELSE w

\* WinStatsGraph::set_drag_mode
Win_set_drag_mode(f, drag_mode) ==
  [f EXCEPT !._drag_mode = drag_mode, !.ev.set = Append(@, drag_mode)]

\* The window's client area: the graph between the margins.
WinWidth(f) == f._left_margin + XSize + f._right_margin

\* [c: the window, mode: the mode returned]
Flame_consider_drag_start(f, mouse_x, mouse_y, width) ==
  LET graph_left == f._left_margin
      graph_top == f._top_margin
  IN
  IF mouse_y >= graph_top /\ mouse_y < graph_top + YSize
    THEN IF mouse_x >= graph_left /\ mouse_x < graph_left + XSize
      THEN LET x == mouse_x - graph_left
               n == find_user_guide_bar(f, Flame_pixel_to_height(f, x - 2),
                                        Flame_pixel_to_height(f, x + 2))
           IN [c |-> [f EXCEPT !._drag_guide_bar = n],
               mode |-> IF n >= 0 THEN "DM_guide_bar" ELSE "DM_none"]
      ELSE IF mouse_x < f._left_margin - 2 \/ mouse_x > width - f._right_margin + 2
        THEN [c |-> f, mode |-> "DM_new_guide_bar"]
        ELSE [c |-> f, mode |-> "DM_none"]
    ELSE [c |-> f, mode |-> "DM_none"]

\* WinStatsGraph::window_proc, WM_SETCURSOR: the pointer has moved while no
\* button is down.
Win_set_cursor(f, mouse_x, mouse_y) ==
  LET r == Flame_consider_drag_start(f, mouse_x, mouse_y, WinWidth(f))
  IN [r.c EXCEPT !._potential_drag_mode = r.mode]

\* WinStatsGraph::window_proc
Win_window_proc(f, msg) ==
  CASE msg = "WM_LBUTTONDOWN" /\ f._potential_drag_mode # "DM_none" ->
         Win_set_drag_mode(f, f._potential_drag_mode)
    [] msg = "WM_LBUTTONUP" -> Win_set_drag_mode(f, "DM_none")
    [] OTHER -> f

window_proc(f, msg) ==
  IF msg = "WM_LBUTTONDOWN" /\ f._potential_drag_mode = "DM_new_guide_bar"
    THEN Win_set_drag_mode(f, "DM_new_guide_bar")
    ELSE Win_window_proc(f, msg)

\* WinStatsGraph::graph_window_proc: what the graph does not take up goes to
\* the window.
Win_graph_window_proc(f, msg) ==
  CASE msg = "WM_LBUTTONDOWN" /\ f._potential_drag_mode # "DM_none" ->
         window_proc(f, msg)
    [] msg = "WM_LBUTTONUP" -> Win_set_drag_mode(f, "DM_none")
    [] OTHER -> f

Flame_on_click_label(f, collector_index) ==
  IF collector_index = f._collector_index /\ collector_index # 0
    THEN IF collector_index \in f.known
           THEN set_collector_index(f, ParentOf(collector_index))
           ELSE f
    ELSE set_collector_index(f, collector_index)

\* lparam: the low word of the message's parameter.
graph_window_proc(f, msg, lparam) ==
  LET x == Int16(lparam) IN
  CASE msg = "WM_LBUTTONDOWN" /\ f._potential_drag_mode = "DM_guide_bar"
                               /\ f._drag_guide_bar >= 0 ->
         Win_set_drag_mode(f, "DM_guide_bar")
    [] msg = "WM_MOUSEMOVE" /\ f._drag_mode = "DM_new_guide_bar"
                             /\ x >= 0 /\ x < XSize ->
         [add_user_guide_bar(Win_set_drag_mode(f, "DM_guide_bar"),
                             Flame_pixel_to_height(f, x))
            EXCEPT !._drag_guide_bar = Len(f._user_guide_bars)]
    [] msg = "WM_MOUSEMOVE" /\ f._drag_mode = "DM_guide_bar" ->
         move_user_guide_bar(f, f._drag_guide_bar, Flame_pixel_to_height(f, x))
    [] msg = "WM_LBUTTONUP" /\ f._drag_mode = "DM_guide_bar" ->
         Win_set_drag_mode(
           IF x < 0 \/ x >= XSize
             THEN remove_user_guide_bar(f, f._drag_guide_bar)
             ELSE move_user_guide_bar(f, f._drag_guide_bar,
                                      Flame_pixel_to_height(f, x)),
           "DM_none")
    [] msg = "WM_LBUTTONDBLCLK" -> Flame_on_click_label(f, f._collector_index)
    [] OTHER -> Win_graph_window_proc(f, msg)

Flame_set_time_units(f, unit_mask) ==
  LET old_unit_mask == f._guide_bar_units IN
  IF old_unit_mask \cap {"GBU_hz", "GBU_ms"} # {}
    THEN [f EXCEPT !._guide_bar_units =
                      (unit_mask \cap {"GBU_hz", "GBU_ms"}) \cup
                      (old_unit_mask \cap {"GBU_show_units"}),
                   !.ev.drawn = TRUE]
    ELSE f

\* The entries of the map for one collector.
LabelsOf(f, collector_index) == {l \in f._labels : l[1] = collector_index}

\* label->set_pos(x, y, std::min(width, _xsize - 2)) on the entries L.
SetPos(f, L, width) ==
  [f EXCEPT !._labels =
     (@ \ L) \cup {<<l[1], l[2], IF width < XSize - 2 THEN width ELSE XSize - 2>> :
                     l \in L}]

\* A slip: a label is made on every call with a width.
update_label_Again(f, collector_index, width) ==
  IF width = 0
    THEN [f EXCEPT !._labels = @ \ LabelsOf(f, collector_index),
                   !.deleted = @ \cup {l[2] : l \in LabelsOf(f, collector_index)},
                   !.width[collector_index] = width]
    ELSE SetPos([f EXCEPT !._labels = @ \cup {<<collector_index, f.made + 1, 0>>},
                          !.made = @ + 1, !.width[collector_index] = width],
                {<<collector_index, f.made + 1, 0>>}, width)

update_label(f, collector_index, width) ==
  LET it == LabelsOf(f, collector_index)
      g == [f EXCEPT !.width[collector_index] = width]
  IN
  IF it # {}
    THEN IF width = 0
           THEN [g EXCEPT !._labels = @ \ it, !.deleted = @ \cup {l[2] : l \in it}]
           ELSE SetPos(g, it, width)
    ELSE IF width = 0 THEN g
         ELSE SetPos([g EXCEPT !._labels = @ \cup {<<collector_index, f.made + 1, 0>>},
                               !.made = @ + 1],
                     {<<collector_index, f.made + 1, 0>>}, width)

\* Where the pointer may be in the window: left of the graph, in each column
\* of the graph, and right of it; above the graph and in it.
MouseX(f) == {0} \cup {f._left_margin + k : k \in 0 .. XSize - 1} \cup {WinWidth(f) - 1}
MouseY(f) == {0, f._top_margin}

\* The low words the messages to the graph bring: the columns of the graph,
\* the first column right of it, and -1.
LowWords == (0 .. XSize) \cup {65535}

\* The events of the flame graph; the pointer is in this window alone.
SetCursor(mouse_x, mouse_y) ==
  /\ chart.ev.op = "none"
  /\ flame._drag_mode = "DM_none"
  /\ flame' = Win_set_cursor(At(flame, "WM_SETCURSOR", mouse_x, mouse_y),
                             mouse_x, mouse_y)
  /\ UNCHANGED <<Transforms, chart, probe>>

GraphMessage(msg, lparam) ==
  /\ chart.ev.op = "none"
  /\ flame' = graph_window_proc(At(flame, msg, Int16(lparam), 0), msg, lparam)
  /\ Len(flame'._user_guide_bars) <= MaxBars
  /\ UNCHANGED <<Transforms, chart, probe>>

\* SetCapture(_graph_window): for the length of a drag of a guide bar the
\* messages of the mouse go to the graph.
WindowMessage(msg) ==
  /\ chart.ev.op = "none"
  /\ flame._drag_mode \notin {"DM_new_guide_bar", "DM_guide_bar"}
  /\ flame' = window_proc(At(flame, msg, 0, 0 - 1), msg)
  /\ UNCHANGED <<Transforms, chart, probe>>

\* ------------------------------------------------------ the user's sessions

DragNext ==
  \/ \E x \in PointerX, y \in PointerY, double_click \in BOOLEAN :
       Press(x, y, double_click, 0 - 1)
  \/ \E x \in PointerX, y \in PointerY, b \in BaseModes : Release(x, y, b)
  \/ \E x \in PointerX, y \in PointerY, b \in BaseModes : Motion(x, y, b)
  \/ \E f \in {flame} : \E mouse_x \in MouseX(f), mouse_y \in MouseY(f) :
       SetCursor(mouse_x, mouse_y)
  \/ \E msg \in {"WM_LBUTTONDOWN", "WM_MOUSEMOVE", "WM_LBUTTONUP", "WM_LBUTTONDBLCLK"},
        lparam \in LowWords : GraphMessage(msg, lparam)
  \/ \E msg \in {"WM_LBUTTONDOWN", "WM_LBUTTONUP"} : WindowMessage(msg)

\* A window as its constructor may leave it.
DragInit ==
  /\ InitBuild(FALSE)
  /\ \E garbage \in {0 - 1, 0} :
       /\ chart = GtkStatsStripChart(0, FALSE, FALSE, garbage, Collectors)
       /\ flame = WinStatsFlameGraph(1, garbage)
  /\ probe = NoProbe

\* The user presses, drags and lets go in one of the two windows.
DragSpec == DragInit /\ [][DragNext]_vars

SmoothNext ==
  \/ \E y \in PointerY, double_click \in BOOLEAN : Press(0, y, double_click, 0 - 1)
  \/ \E y \in PointerY, b \in BaseModes : Release(0, y, b)
  \/ \E y \in PointerY, b \in BaseModes : Motion(0, y, b)
  \/ Toggled

\* The user drags in the strip chart and toggles the Smooth check box.
SmoothSpec == DragInit /\ [][SmoothNext]_vars

\* The user clicks on a label, or double-clicks in the graph.
ClickLabel(collector_index) ==
  /\ chart' = on_click_label(At(chart, "on_click_label", collector_index, 0),
                             collector_index)
  /\ UNCHANGED <<Transforms, flame, probe>>

LabelNext == \E collector_index \in {0 - 1} \cup Collectors : ClickLabel(collector_index)

\* A strip chart of any collector, of time or of a level, for a client that
\* has defined some of the collectors.
LabelInit ==
  /\ InitBuild(FALSE)
  /\ \E collector_index \in Collectors, show_level \in BOOLEAN, S \in SUBSET Strays,
        garbage \in {0 - 1, 0} :
       /\ chart = GtkStatsStripChart(collector_index, show_level, FALSE, garbage,
                                     Collectors \ S)
       /\ flame = WinStatsFlameGraph(0, garbage)
  /\ probe = NoProbe

LabelSpec == LabelInit /\ [][LabelNext]_vars

\* The bits of a unit mask: GBU_hz = 1, GBU_ms = 2, GBU_named = 4,
\* GBU_show_units = 8.
MaskOf(n) ==
  (IF n % 2 = 1 THEN {"GBU_hz"} ELSE {}) \cup
  (IF (n \div 2) % 2 = 1 THEN {"GBU_ms"} ELSE {}) \cup
  (IF (n \div 4) % 2 = 1 THEN {"GBU_named"} ELSE {}) \cup
  (IF (n \div 8) % 2 = 1 THEN {"GBU_show_units"} ELSE {})

\* The user picks the time units in the monitor's menu: every graph is told.
SetTimeUnits(n) ==
  /\ chart' = set_time_units(At(chart, "set_time_units", n, 0), MaskOf(n))
  /\ flame' = Flame_set_time_units(At(flame, "set_time_units", n, 0), MaskOf(n))
  /\ UNCHANGED <<Transforms, probe>>

UnitsNext == \E n \in 0 .. 15 : SetTimeUnits(n)

\* A strip chart of time, of a level with a unit name, or of a level without.
UnitsInit ==
  /\ InitBuild(FALSE)
  /\ \E show_level, unit_name_empty \in BOOLEAN, garbage \in {0 - 1, 0} :
       /\ chart = GtkStatsStripChart(0, show_level, unit_name_empty, garbage,
                                     Collectors)
       /\ flame = WinStatsFlameGraph(0, garbage)
  /\ probe = NoProbe

UnitsSpec == UnitsInit /\ [][UnitsNext]_vars

\* PStatFlameGraph::update_labels() repositions a label.
UpdateLabel(collector_index, width) ==
  /\ flame' = update_label(At(flame, "update_label", collector_index, width),
                           collector_index, width)
  /\ flame'.made <= MaxLabels
  /\ UNCHANGED <<Transforms, chart, probe>>

FlameLabelNext ==
  \E collector_index \in Collectors, width \in {0, 1, 3} :
    UpdateLabel(collector_index, width)

FlameLabelSpec == Init /\ [][FlameLabelNext]_vars

TypeOK ==
  /\ alive \subseteq Ids
  /\ states \subseteq alive
  /\ \A i \in Ids : ref[i] >= 0 /\ cref[i] >= 0 /\ nref[i] >= 0

\* ------------------------------------------------------------------- claims

Singletons == {identity_state, invalid_state}

Destroyed(i) == i \in Ids /\ i < next /\ i \notin alive

\* a's cache holds an entry whose result is b.
CachesResult(a, b) == \E e \in AllEntries(Heap) : e.o = a /\ e.r = b

\* The instance the full factory returns, in the present state, for the call
\* c with the components c leaves out at their defaults: no translation (0),
\* no rotation (0), unit scale (1), no shear (0).
FullFactory(c) ==
  CASE c.op = "make_pos" -> make_pos_hpr_scale_shear(Heap, c.x, 0, 1, 0).ret
    [] c.op = "make_hpr" -> make_pos_hpr_scale_shear(Heap, 0, c.x, 1, 0).ret
    [] c.op = "make_quat" -> make_pos_quat_scale_shear(Heap, 0, c.x, 1, 0).ret
    [] c.op = "make_pos_hpr" -> make_pos_hpr_scale_shear(Heap, c.x, c.y, 1, 0).ret
    [] c.op = "make_pos_quat" -> make_pos_quat_scale_shear(Heap, c.x, c.y, 1, 0).ret
    [] c.op = "make_scale" -> make_pos_hpr_scale_shear(Heap, 0, 0, c.x, 0).ret
    [] c.op = "make_shear" -> make_pos_hpr_scale_shear(Heap, 0, 0, 1, c.x).ret
    [] c.op = "make_pos_hpr_scale" ->
         make_pos_hpr_scale_shear(Heap, c.x, c.y, c.z, 0).ret
    [] c.op = "make_pos_quat_scale" ->
         make_pos_quat_scale_shear(Heap, c.x, c.y, c.z, 0).ret
    [] c.op = "make_pos_hpr_scale_shear" ->
         make_pos_hpr_scale_shear(Heap, c.x, c.y, c.z, c.w).ret
    [] c.op = "make_pos_quat_scale_shear" ->
         make_pos_quat_scale_shear(Heap, c.x, c.y, c.z, c.w).ret
    [] OTHER -> c.ret

\* C1: threads that intern at the same time never leave two equal instances
\* in the registry, and every thread is returned the registered instance
\* equal to its candidate, so that threads with equal candidates are
\* returned the same instance.
C1_InternOnce ==
  /\ states \subseteq alive
  /\ \A i, j \in states : Equal(val[i], val[j]) => i = j
  /\ \A t \in Threads :
       thr[t].pc = "done" => thr[t].ret \in states /\ Equal(val[thr[t].ret], thr[t].v)
  /\ \A t, u \in Threads :
       thr[t].pc = "done" /\ thr[u].pc = "done" /\ Equal(thr[t].v, thr[u].v)
         => thr[t].ret = thr[u].ret

\* Two threads had equal candidates at the same time: both were returned the
\* candidate of t, and u, whose candidate was the older one, lost.
C1_Witness ==
  \E t, u \in Threads :
    /\ t # u /\ thr[t].pc = "done" /\ thr[u].pc = "done"
    /\ thr[t].ret = thr[t].c /\ thr[u].ret = thr[t].c
    /\ thr[u].c < thr[t].c /\ thr[u].c \notin alive

\* C2: the registry never holds two value-equal instances, every live
\* instance is registered, and the instance a factory has just returned is
\* the one the full factory returns for the same components with the
\* defaults filled in; so equal values are one instance while it is alive.
C2_FactoryUnique ==
  /\ \A i, j \in states : Equal(val[i], val[j]) => i = j
  /\ alive = states
  /\ last.ret # Null => last.ret \in states /\ FullFactory(last) = last.ret

\* make_quat() has returned an instance that an hpr factory had constructed,
\* and make_pos() one that another call had constructed with more components.
C2_Witness ==
  \/ /\ last.op = "make_quat" /\ last.ret \notin Singletons
     /\ val[last.ret].rot = "hpr"
  \/ /\ last.op = "make_pos" /\ last.ret \notin Singletons
     /\ held[last.ret] > 1

\* C3: cycle reclamation.  A value no caller and no node refers to any more,
\* kept alive by cache references only (those of a cycle included), is
\* eventually destroyed, unless a caller gets hold of it again first.
C3_CycleReclaimed ==
  \A i \in Ids :
    (i \in alive /\ GhostOrdinary(i) = 0) ~> (i \notin alive \/ GhostOrdinary(i) > 0)

\* Two unreferenced values, each holding a cache entry whose result is the other.
C3_Witness ==
  \E a, b \in alive :
    /\ a # b
    /\ GhostOrdinary(a) = 0 /\ GhostOrdinary(b) = 0
    /\ CachesResult(a, b) /\ CachesResult(b, a)

\* C4: a value is destroyed only once no caller, no node and no static pointer
\* refers to it, no cache entry has it as its result, and all three of its
\* counts are zero.
C4_DestroyedOnlyUnreferenced ==
  [][\A i \in alive :
       i \notin alive' =>
         /\ held'[i] = 0 /\ node' # i /\ i \notin Singletons
         /\ ref'[i] = 0 /\ nref'[i] = 0 /\ cref'[i] = 0
         /\ \A o \in Ids : \A e \in cc'[o] \cup ic'[o] : e[2] # i]_vars

\* Two values have been destroyed.
C4_Witness ==
  \E i, j \in Ids : i # j /\ Destroyed(i) /\ Destroyed(j)

\* C5: no cache entry of a live value has a destroyed key or a destroyed result.
C5_NoDanglingEntry ==
  \A e \in AllEntries(Heap) : e.o \in alive => e.k \in alive /\ e.r \in alive

\* A value has been destroyed while a live value has a cache entry.
C5_Witness ==
  \E i, o \in Ids : Destroyed(i) /\ o \in alive /\ cc[o] \cup ic[o] # {}

\* C6: compose(identity, x) and compose(x, identity) return x itself, for
\* every x, and add no cache entry.
C6_ComposeIdentity ==
  last.op = "compose" =>
    /\ last.x = identity_state => last.ret = last.y /\ last.e1 = last.e0
    /\ last.y = identity_state => last.ret = last.x /\ last.e1 = last.e0

\* compose(identity, invalid) was called.
C6_Witness ==
  last.op = "compose" /\ last.x = identity_state /\ last.y = invalid_state

\* C7: compose(x, invalid) and compose(invalid, x) return the invalid singleton.
C7_ComposeInvalid ==
  last.op = "compose" /\ (last.x = invalid_state \/ last.y = invalid_state)
    => last.ret = invalid_state

\* compose(invalid, x) was called for a valid x that is not the identity.
C7_Witness ==
  last.op = "compose" /\ last.x = invalid_state /\ last.y \notin Singletons

\* C8: a second a.compose(b), with a, b and the first result held in between,
\* returns the first result and leaves a's number of cache entries as it was.
C8_ComposeTwice ==
  last.op = "compose" /\ last.prev # Null
  /\ last.x \notin Singletons /\ last.y \notin Singletons
    => last.ret = last.prev /\ last.n1 = last.n0

\* A second call, answered from the cache, whose result is neither operand.
C8_Witness ==
  /\ last.op = "compose" /\ last.prev # Null
  /\ last.x \notin Singletons /\ last.y \notin Singletons
  /\ last.ret \notin {last.x, last.y} /\ last.n0 > 0

\* C9: under first use by several threads init_states() runs at most once,
\* no caller is returned a null pointer, and all callers of the same factory
\* are returned the same singleton.
C9_SingletonsOnce ==
  /\ ninit <= 1
  /\ \A t \in Threads : thr[t].pc = "returned" => thr[t].ret # Null
  /\ \A t, u \in Threads :
       thr[t].pc = "returned" /\ thr[u].pc = "returned" /\ thr[t].op = thr[u].op
         => thr[t].ret = thr[u].ret

\* Two threads have both found _states_lock null.
C9_Witness ==
  \E t, u \in Threads : t # u /\ thr[t].pc = "init" /\ thr[u].pc = "init"

ComponentAccessors == {"get_hpr", "get_quat", "get_norm_quat", "get_scale", "get_shear"}

\* C10: a call of get_hpr, get_quat, get_norm_quat, get_scale or get_shear on
\* a value whose has_components() is false fails an assertion.
C10_MisuseAsserted ==
  last.op \in ComponentAccessors /\ ~has_components(last.x).yes => last.asserted

\* A component accessor was called on a valid value that has no components.
C10_Witness ==
  /\ last.op \in ComponentAccessors
  /\ ~has_components(last.x).yes
  /\ ~is_invalid(last.x)

TwoDAccessors == {"get_pos2d", "get_rotate2d", "get_scale2d", "get_shear2d", "get_mat3"}

\* What a failed 2-d accessor returns: the zero vector, 0, the identity matrix.
Fallback2d(op) == IF op = "get_mat3" THEN AsTuple(IdentLogical) ELSE <<0>>

\* The part of the transform l that a 2-d accessor reads.
Projection2d(op, l) ==
  CASE op = "get_pos2d" -> <<l.p>>
    [] op = "get_rotate2d" -> <<l.r>>
    [] op = "get_scale2d" -> <<l.s>>
    [] op = "get_shear2d" -> <<l.h>>
    [] op = "get_mat3" -> AsTuple(l)

TwoDFactories ==
  {"make_pos2d", "make_rotate2d", "make_pos_rotate2d", "make_scale2d",
   "make_shear2d", "make_pos_rotate_scale2d"}

\* The 3-d factories that take vectors, and the matrix construction.
ThreeDFactories == {"make_pos", "make_scale", "make_mat"}

C13_HasPosHasMat ==
  last.op \in {"has_pos", "has_mat"} => (last.yes <=> val[last.x].kind # "invalid")

\* has_pos() was called on a valid value that, as a derivation has found,
\* has no components.
C13_Witness ==
  /\ last.op = "has_pos" /\ last.yes
  /\ "components_known" \in flags[last.x] /\ "has_components" \notin flags[last.x]

ComponentPredicates == {"has_components", "has_hpr", "has_quat", "has_scale", "has_shear"}

\* C14: has_components() is false for the invalid singleton and for a
\* transform with a skew, which cannot be decomposed, and true otherwise;
\* has_hpr(), has_quat(), has_scale() and has_shear() return what
\* has_components() returns.
C14_HasComponents ==
  last.op \in ComponentPredicates =>
    /\ last.yes <=> (val[last.x].kind # "invalid" /\ val[last.x].l.k = 0)
    /\ last.yes = has_components(last.x).yes

\* has_quat() has returned false for a matrix with a skew.
C14_Witness ==
  last.op = "has_quat" /\ ~last.yes /\ val[last.x].kind = "mat"

\* A valid value whose matrix cannot be inverted.
Singular(i) == val[i].kind # "invalid" /\ val[i].l.s = 0

\* C15: for a singular value, get_inverse() returns the invalid singleton,
\* which reports neither has_mat() nor has_pos(), and get_inverse_mat()
\* returns null; neither call fails an assertion.
C15_SingularInverse ==
  /\ last.op = "get_inverse" /\ Singular(last.x) =>
        /\ last.ret = invalid_state /\ val[last.ret].kind = "invalid"
        /\ ~has_mat(last.ret) /\ ~has_pos(last.ret)
  /\ last.op = "get_inverse_mat" /\ Singular(last.x) =>
        last.out = <<>> /\ ~last.asserted

\* get_inverse() was called a second time on a singular value, whose cache
\* holds the result of the first call.
C15_Witness ==
  /\ last.op = "get_inverse" /\ Singular(last.x)
  /\ held[invalid_state] > 1

Valid(i) == val[i].kind \notin {"invalid", "none"}

\* What a->get_inverse() returns in the present state.
InverseOf(a) == get_inverse(Heap, a).ret

\* C16: for valid a and b, a.invert_compose(b) and a.get_inverse().compose(b)
\* return the same instance, in whichever order the two are called: the
\* result of the later call is the one a's or the inverse's cache holds for
\* the earlier call.
C16_InvertComposeLaw ==
  /\ last.op = "compose" /\ Valid(last.y) =>
        \A a \in alive :
          Valid(a) /\ InverseOf(a) = last.x =>
            \A e \in ic[a] : e[1] = last.y => e[2] = last.ret
  /\ last.op = "invert_compose" /\ Valid(last.x) /\ Valid(last.y) =>
        /\ InverseOf(last.x) \in alive =>
              \A e \in cc[InverseOf(last.x)] : e[1] = last.y => e[2] = last.ret
        /\ last.x = identity_state => last.ret = last.y

\* a.get_inverse().compose(b) was called after a.invert_compose(b), for a
\* non-singular a whose inverse is b, and the result is neither the
\* identity nor the invalid singleton.
C16_Witness ==
  /\ last.op = "compose" /\ last.x = last.y /\ last.ret \notin Singletons
  /\ \E a \in alive :
       /\ Valid(a) /\ val[a].l.s # 0 /\ InverseOf(a) = last.x
       /\ \E e \in ic[a] : e[1] = last.y

NonSingular(i) == Valid(i) /\ val[i].l.s # 0

\* C17: for a non-singular valid x, x.invert_compose(x) and
\* x.get_inverse().compose(x) return the identity singleton, of which
\* is_identity() is true.
C17_InverseIsIdentity ==
  /\ last.op = "invert_compose" /\ last.x = last.y /\ NonSingular(last.x) =>
        last.ret = identity_state /\ is_identity(last.ret)
  /\ last.op = "compose" /\ NonSingular(last.y) /\ InverseOf(last.y) = last.x =>
        last.ret = identity_state /\ is_identity(last.ret)

\* The inverse of x, which is neither x nor a singleton, was composed with x.
C17_Witness ==
  /\ last.op = "compose" /\ NonSingular(last.y) /\ InverseOf(last.y) = last.x
  /\ last.x # last.y /\ last.x \notin Singletons

\* C18: an accessor called again on the same value, whatever accessors were
\* called in between, returns what it returned before: the same assertion
\* outcome, the same truth value and the same field.
C18_DerivationIdempotent ==
  last.op \in Accessors /\ memo.a = last.x /\ memo.b = last.op =>
    memo.r = [asserted |-> last.asserted, yes |-> last.yes, out |-> last.out]

\* get_scale() has returned the scale of a matrix a second time, after
\* other accessors have derived the matrix's other representations.
C18_Witness ==
  /\ last.op = "get_scale" /\ memo.a = last.x /\ memo.b = last.op
  /\ val[last.x].kind = "mat" /\ last.out # Unset
  /\ {"quat_known", "norm_quat_known", "singular_known", "hash_known"}
        \subseteq flags[last.x]

\* C19: threads that make the first access to a lazily derived
\* representation of one value at the same time are each returned what a
\* single-threaded call returns; none reads a field that has not been
\* written yet though its known-flag is set.
C19_FirstAccessRace ==
  \A t \in Threads :
    thr[t].pc = "done" => thr[t].ret = Accessor(thr[t].op, thr[t].c).out

\* A thread has found the known-flag set while the thread that derives the
\* representation has not yet written the fields.
C19_Witness ==
  \E t, u \in Threads :
    /\ t # u /\ thr[t].c = thr[u].c /\ thr[t].op = thr[u].op
    /\ thr[t].pc = "calc_fields" /\ thr[u].pc = "read"

Sign(n) == IF n < 0 THEN 0 - 1 ELSE IF n > 0 THEN 1 ELSE 0

\* C20: for all values a, b and c, the sign of a.compare_to(b) is the
\* opposite of the sign of b.compare_to(a), a before b and b before c imply
\* a before c, and a comparison gives the sign an earlier comparison of the
\* same pair gave, whatever was derived in between.
C20_TotalOrder ==
  /\ \A a, b \in alive : Sign(compare_to(a, b)) = 0 - Sign(compare_to(b, a))
  /\ \A a, b, c \in alive :
        compare_to(a, b) < 0 /\ compare_to(b, c) < 0 => compare_to(a, c) < 0
  /\ last.op = "compare_to" /\ memo.a = last.x /\ memo.b = last.y =>
        Sign(memo.r) = Sign(last.out[1])

\* Two matrices were compared a second time, after the first comparison
\* and an accessor had derived representations of them.
C20_Witness ==
  /\ last.op = "compare_to" /\ memo.a = last.x /\ memo.b = last.y
  /\ last.x # last.y /\ last.out[1] # 0
  /\ val[last.x].kind = "mat" /\ val[last.y].kind = "mat"
  /\ "components_known" \in flags[last.x]

EntriesTo(i) == {e \in AllEntries(Heap) : e.r = i}

\* C22: the cache-reference count of each live value is the number of
\* entries, in the composition caches and the invert-composition caches of
\* all values, whose result is that value.
C22_CacheRefCount ==
  \A i \in alive : cref[i] = Cardinality(EntriesTo(i))

\* A value is the result of an entry of a composition cache and of an entry
\* of an invert-composition cache.
C22_Witness ==
  \E i \in alive :
    /\ cref[i] = 2
    /\ {e.m : e \in EntriesTo(i)} = {"c", "i"}

\* C23 as stated: in any chain of destructions one call sets off, the
\* destructor of each value is entered at most once, and is_destructing()
\* is true of a value from set_destructing() until the value is gone.
C23_DestructingOnce ==
  /\ \A i \in Ids : dtor.starts[i] <= 1
  /\ FALSE \notin dtor.obs

\* C23, amended: in any chain of destructions one call sets off, the
\* destructor of each value is entered at most once, and in a build that
\* does not define NDEBUG is_destructing() is true of a value from
\* set_destructing() until the value is gone.
C23_DestructingOnceDebug ==
  /\ \A i \in Ids : dtor.starts[i] <= 1
  /\ ~dtor.ndebug => FALSE \notin dtor.obs

\* In the debugging build the destructor of one value has destroyed
\* another, which saw the first one destructing.
C23_Witness ==
  /\ ~dtor.ndebug /\ dtor.nested /\ dtor.obs = {TRUE}
  /\ Cardinality({i \in Ids : dtor.starts[i] = 1}) >= 2

\* C24: every registry entry points to a live value and every live value
\* has a registry entry, its only one; a destroyed value has none, and a
\* call that asks for a value equal to a destroyed one is returned a live,
\* registered instance which is another one.
C24_RegistryLive ==
  /\ states \subseteq alive
  /\ \A i \in alive : Cardinality({j \in states : Equal(val[j], val[i])}) = 1
  /\ \A d \in Ids : Destroyed(d) => d \notin states
  /\ last.ret # Null =>
        /\ last.ret \in states
        /\ \A d \in Ids : Destroyed(d) => last.ret # d

\* make_pos() was asked for a value equal to a destroyed one, and returned
\* an instance constructed after it.
C24_Witness ==
  /\ last.op = "make_pos"
  /\ \E d \in Ids :
       /\ Destroyed(d) /\ Equal(val[d], val[last.ret])
       /\ last.ret \in states /\ last.ret > d

\* The lock thread t is about to take, or "none".
Wants(t) ==
  IF thr[t].pc = "locking" /\ thr[t].locks # <<>> THEN Head(thr[t].locks) ELSE "none"

\* Thread t cannot take the lock it is about to take.
Waits(t) ==
  \/ Wants(t) = "_states_lock" /\ owner \notin {Null, t}
  \/ Wants(t) = "_lock" /\ lock[thr[t].c] # Null

\* C25: no thread takes _states_lock while it holds the _lock of an
\* instance, and whenever a thread waits for a lock, a thread that is inside
\* a call does not wait: no interleaving of the calls ends in a deadlock.
C25_LockOrder ==
  /\ \A t \in Threads :
        Wants(t) = "_states_lock" => \A i \in Ids : lock[i] # t
  /\ (\E t \in Threads : Waits(t)) =>
        \E u \in Threads : thr[u].pc # "idle" /\ ~Waits(u)

\* compose() holds _states_lock and waits for the _lock of its operand,
\* which an accessor on another thread holds.
C25_Witness ==
  \E t, u \in Threads :
    /\ t # u /\ owner = t /\ thr[t].op = "compose" /\ Waits(t)
    /\ lock[thr[t].c] = u /\ thr[u].op = "get_mat"

Walks == {"walk_composition_cache", "walk_invert_composition_cache"}

\* C26: the size get_composition_cache_size() (or the invert variant)
\* returns is above the index of every occupied slot, a walk of n from 0 to
\* size - 1 finds every entry of the cache, and no slot out of range is
\* asked for.
C26_WalkComplete ==
  last.op \in Walks =>
    /\ last.n0 >= last.n1
    /\ last.e0 = last.e1
    /\ ~last.asserted

\* A walk of a cache with two entries, in slots the size returned does not
\* reach, has found none of them.
C26_Witness ==
  last.op \in Walks /\ last.e1 = 2 /\ last.n0 = 2 /\ last.e0 = 0

Slots == 0 .. NumSlots - 1

\* C27: for every live value a and every occupied slot n of its composition
\* cache, a.compose(get_composition_cache_source(n)) returns
\* get_composition_cache_result(n), and likewise for invert_compose() and
\* the invert composition cache.
C27_CacheAgrees ==
  \A a \in alive, n \in Slots :
    /\ get_composition_cache_source(Heap, a, n) # Null =>
          compose(Heap, a, get_composition_cache_source(Heap, a, n)).ret
            = get_composition_cache_result(Heap, a, n)
    /\ get_invert_composition_cache_source(Heap, a, n) # Null =>
          invert_compose(Heap, a, get_invert_composition_cache_source(Heap, a, n)).ret
            = get_invert_composition_cache_result(Heap, a, n)

\* A value has an occupied slot in each of its caches, whose results are
\* not their sources, and compose() has just returned the result of one.
C27_Witness ==
  /\ last.op = "compose" /\ last.e1 = last.e0 /\ last.ret # last.y
  /\ \E n \in Slots :
       /\ get_composition_cache_source(Heap, last.x, n) = last.y
       /\ get_composition_cache_result(Heap, last.x, n) = last.ret
  /\ \E n \in Slots : get_invert_composition_cache_source(Heap, last.x, n) # Null

\* C28: a.compose(b) leaves the number of entries of a's invert composition
\* cache as it was, and a.invert_compose(b) the number of entries of a's
\* composition cache.
C28_CachesIndependent ==
  last.op \in {"compose, counted", "invert_compose, counted"} => last.n1 = last.n0

\* A call has added an entry to one cache of a value whose other cache
\* holds an entry.
C28_Witness ==
  /\ last.op \in {"compose, counted", "invert_compose, counted"}
  /\ last.e1 = last.e0 + 1 /\ last.n0 = 1

\* C29: no call changes what operator ==, compare_to and get_hash return
\* for the values that are there before and after it, and get_hash()
\* returns the hash an earlier get_hash() of the same value returned.
C29_ValueImmutable ==
  [][/\ \A i \in alive \cap alive' :
          /\ get_hash(i).out' = get_hash(i).out
          /\ \A j \in alive \cap alive' :
                /\ operator_eq(i, j)' = operator_eq(i, j)
                /\ compare_to(i, j)' = compare_to(i, j)
     /\ last'.op = "get_hash" /\ memo'.a = last'.x /\ memo'.b = "get_hash" =>
          memo'.r.out = last'.out]_vars

\* get_hash() is called again on a value that was an operand of compose(),
\* after the first call whose result is remembered.
C29_Witness ==
  /\ last.op = "get_hash" /\ memo.a = last.x /\ memo.b = "get_hash"
  /\ "mat_known" \in flags[last.x] /\ cc[last.x] # {}
  /\ last.out # Unset

KnownFlags ==
  {"components_known", "hpr_known", "quat_known", "norm_quat_known", "mat_known",
   "singular_known"}

C31_IdentityIsUniform ==
  /\ has_identity_scale(probe).yes => has_uniform_scale(probe).yes
  /\ "identity_scale" \in probe._flags => "uniform_scale" \in probe._flags
  /\ probe.op = "get_uniform_scale" =>
       /\ probe.asserted <=> ~has_uniform_scale(probe).yes
       /\ ~probe.asserted => probe.out = <<probe._scale[1]>>

\* get_uniform_scale() has returned the x scale of a value given by a matrix,
\* whose y and z scales are each nearly the x scale but not nearly each other,
\* and whose x scale is nearly one.
C31_Witness ==
  /\ probe.op = "get_uniform_scale" /\ ~probe.asserted /\ probe.kind = "mat"
  /\ probe.out = <<ScaleOne>>
  /\ ~IS_NEARLY_EQUAL(probe._scale[2], probe._scale[3])
  /\ "identity_scale" \in probe._flags

\* The call before the last was op on the same instance, which is alive.
Undoes(op) == memo.b = op /\ memo.a = last.x /\ last.x \in alive

\* C32: on a value that stays alive, cache_unref() right after cache_ref()
\* leaves the cache-reference count and the overall count as they were
\* before, and node_unref() right after node_ref() the node-reference count
\* and the overall count; cache_unref() and node_unref() return false exactly
\* when they bring the overall count to zero.
C32_RefRoundTrip ==
  /\ last.op = "cache_unref" /\ Undoes("cache_ref") =>
       SubSeq(last.out, 4, 6) = SubSeq(memo.r, 1, 3)
  /\ last.op = "node_unref" /\ Undoes("node_ref") =>
       SubSeq(last.out, 4, 6) = SubSeq(memo.r, 1, 3)
  /\ last.op \in {"cache_unref", "node_unref"} => (~last.yes <=> last.out[6] = 0)
  /\ \A i \in alive :
       ref[i] > 0 =>
         /\ Counts(cache_unref(cache_ref(Heap, i), i).h, i) = Counts(Heap, i)
         /\ Counts(node_unref(node_ref(Heap, i), i).h, i) = Counts(Heap, i)
         /\ cache_unref(cache_ref(Heap, i), i).res
         /\ node_unref(node_ref(Heap, i), i).res

\* A cache reference to a value the scene graph holds by a node reference
\* was given back right after it was taken.
C32_Witness ==
  /\ last.op = "cache_unref" /\ Undoes("cache_ref") /\ last.yes
  /\ node = last.x /\ last.out[4] = 0

\* C33: whenever the strip chart's drag mode is DM_guide_bar, _drag_guide_bar
\* is the index of a user guide bar that exists, and no handler has asked to
\* move or remove a guide bar that does not exist.
C33_DragBarExists ==
  /\ chart._drag_mode = "DM_guide_bar" => HasBar(chart, chart._drag_guide_bar)
  /\ ~chart.ev.bad

\* A press has begun the drag of the second of two guide bars.
C33_Witness ==
  /\ chart.ev.op = "handle_button_press" /\ chart._drag_mode = "DM_guide_bar"
  /\ chart._drag_guide_bar = 1 /\ Len(chart._user_guide_bars) = 2

\* C34: after a handler has called set_drag_mode(), the average mode is
\* false if the drag mode is DM_scale or DM_sizing and is the state of the
\* Smooth check box otherwise; after a button release the drag mode is
\* DM_none and the average mode is the state of the check box.
C34_SmoothRestored ==
  /\ chart.ev.set # <<>> =>
       chart._average_mode =
         (IF chart._drag_mode \in {"DM_scale", "DM_sizing"} THEN FALSE
          ELSE chart._smooth_check_box)
  /\ chart.ev.op = "handle_button_release" =>
       chart._drag_mode = "DM_none" /\ chart._average_mode = chart._smooth_check_box

\* With the check box active, a drag of the scale has ended.
C34_Witness ==
  /\ chart.ev.op = "handle_button_release" /\ chart.ev.set = <<"DM_none">>
  /\ chart._average_mode /\ chart._value_height # <<1, 1>>

\* C35: while the drag mode is DM_new_guide_bar, an event leaves the user
\* guide bars as they are unless it is a motion whose coordinate is inside
\* the graph (y for the strip chart, x for the flame graph); that event adds
\* one guide bar, sets _drag_guide_bar to its index and the drag mode to
\* DM_guide_bar.
C35_NewBarOnEntry ==
  [][/\ chart._drag_mode = "DM_new_guide_bar" /\ chart' # chart =>
          IF chart'.ev.op = "handle_motion" /\ InGraphY(chart'.ev.y)
            THEN /\ chart'._user_guide_bars =
                      Append(chart._user_guide_bars,
                             pixel_to_height(chart, chart'.ev.y))
                 /\ chart'._drag_guide_bar = Len(chart._user_guide_bars)
                 /\ chart'._drag_mode = "DM_guide_bar"
            ELSE chart'._user_guide_bars = chart._user_guide_bars
     /\ flame._drag_mode = "DM_new_guide_bar" /\ flame' # flame =>
          IF flame'.ev.op = "WM_MOUSEMOVE" /\ InGraphX(flame'.ev.x)
            THEN /\ flame'._user_guide_bars =
                      Append(flame._user_guide_bars,
                             Flame_pixel_to_height(flame, flame'.ev.x))
                 /\ flame'._drag_guide_bar = Len(flame._user_guide_bars)
                 /\ flame'._drag_mode = "DM_guide_bar"
            ELSE flame'._user_guide_bars = flame._user_guide_bars]_vars

\* A motion into the strip chart has made the second guide bar.
C35_Witness ==
  /\ chart.ev.op = "handle_motion" /\ chart.ev.set = <<"DM_guide_bar">>
  /\ Len(chart._user_guide_bars) = 2 /\ chart._drag_guide_bar = 1

\* The guide bars s without the one of index n.
Without(s, n) == SubSeq(s, 1, n) \o SubSeq(s, n + 2, Len(s))

\* C36: a button release in DM_guide_bar removes the dragged guide bar when
\* the coordinate is outside the graph and otherwise moves it to
\* pixel_to_height() of the coordinate, and after it, as after a release in
\* DM_scale, the drag mode is DM_none.
C36_ReleaseEndsDrag ==
  [][/\ chart'.ev.op = "handle_button_release" /\ chart' # chart =>
          /\ chart._drag_mode = "DM_guide_bar" =>
               chart'._user_guide_bars =
                 IF chart'.ev.y < 0 \/ chart'.ev.y >= YSize
                   THEN Without(chart._user_guide_bars, chart._drag_guide_bar)
                   ELSE [chart._user_guide_bars EXCEPT
                           ![chart._drag_guide_bar + 1] =
                             pixel_to_height(chart, chart'.ev.y)]
          /\ chart._drag_mode \in {"DM_guide_bar", "DM_scale"} =>
               chart'._drag_mode = "DM_none"
     /\ flame'.ev.op = "WM_LBUTTONUP" /\ flame' # flame
                                     /\ flame._drag_mode = "DM_guide_bar" =>
          /\ flame'._user_guide_bars =
               IF flame'.ev.x < 0 \/ flame'.ev.x >= XSize
                 THEN Without(flame._user_guide_bars, flame._drag_guide_bar)
                 ELSE [flame._user_guide_bars EXCEPT
                         ![flame._drag_guide_bar + 1] =
                           Flame_pixel_to_height(flame, flame'.ev.x)]
          /\ flame'._drag_mode = "DM_none"]_vars

\* The second of two guide bars was dragged out of the strip chart and the
\* button released there.
C36_Witness ==
  /\ chart.ev.op = "handle_button_release" /\ ~InGraphY(chart.ev.y)
  /\ chart.ev.set = <<"DM_none">>
  /\ Len(chart._user_guide_bars) = 1 /\ chart._drag_guide_bar = 1

\* C37: on_click_label(c) takes a negative c for the current collector; a
\* click on the current collector, when it is not 0 and the client data has
\* it, goes to its parent, unless the parent is 0 and the view shows a
\* level, when the index stays; a click on collector 0 while it is current
\* leaves the index 0; a click on any other collector sets the index to c.
C37_ClickLabel ==
  [][chart'.ev.op = "on_click_label" /\ chart' # chart =>
       LET cur == chart._collector_index
           k == IF chart'.ev.x < 0 THEN cur ELSE chart'.ev.x
           new == chart'._collector_index
       IN /\ k = cur /\ cur # 0 /\ cur \in chart.known =>
               new = IF ParentOf(cur) = 0 /\ chart.show_level THEN cur
                     ELSE ParentOf(cur)
          /\ k = cur /\ cur = 0 => new = 0
          /\ k # cur => new = k]_vars

\* A click on whitespace in a level graph whose collector's parent is Frame.
C37_Witness ==
  /\ chart.ev.op = "on_click_label" /\ chart.ev.x < 0
  /\ chart.show_level /\ chart._collector_index = 2 /\ 2 \in chart.known

\* The graphs whose units are of time.
TimeBased(w) == w._guide_bar_units \cap {"GBU_hz", "GBU_ms"} # {}

\* What set_time_units() is to make of window w, which becomes v.
UnitsSet(w, v) ==
  IF TimeBased(w)
    THEN v._guide_bar_units =
           (MaskOf(v.ev.x) \cap {"GBU_hz", "GBU_ms"}) \cup
           (w._guide_bar_units \cap {"GBU_show_units"})
    ELSE v._guide_bar_units = w._guide_bar_units /\ ~v.ev.drawn

\* C38: set_time_units(mask) changes the units only of a graph whose units
\* contain GBU_hz or GBU_ms; the new units are the GBU_hz and GBU_ms bits of
\* the mask and the GBU_show_units bit the graph had; the units of any other
\* graph stay and no redraw is queued.
C38_TimeUnits ==
  [][chart'.ev.op = "set_time_units" /\ flame'.ev.op = "set_time_units" =>
       UnitsSet(chart, chart') /\ UnitsSet(flame, flame')]_vars

\* The strip chart of time was told a mask with GBU_named and without
\* GBU_show_units, and shows hertz with the units.
C38_Witness ==
  /\ chart.ev.op = "set_time_units" /\ chart.ev.drawn
  /\ MaskOf(chart.ev.x) = {"GBU_hz", "GBU_named"}
  /\ chart._guide_bar_units = {"GBU_hz", "GBU_show_units"}

\* The labels that have been made and not deleted.
LiveLabels(f) == (1 .. f.made) \ f.deleted

\* C39: update_label() keeps at most one label per collector: a call with
\* width 0 deletes the collector's label and makes none, a call with another
\* width makes a label only if the collector has none, and after any calls
\* the map holds the collectors whose last call had a width other than 0.
C39_OneLabel ==
  [][/\ \A c \in Collectors : Cardinality(LabelsOf(flame', c)) <= 1
     /\ {l[1] : l \in flame'._labels} = {c \in Collectors : flame'.width[c] # 0}
     /\ {l[2] : l \in flame'._labels} = LiveLabels(flame')
     /\ flame'.ev.op = "update_label" /\ flame' # flame =>
          LET c == flame'.ev.x
              width == flame'.ev.y
          IN /\ width = 0 =>
                  /\ LabelsOf(flame', c) = {}
                  /\ flame'.made = flame.made
                  /\ flame'.deleted = flame.deleted \cup {l[2] : l \in LabelsOf(flame, c)}
             /\ width # 0 =>
                  /\ flame'.deleted = flame.deleted
                  /\ flame'.made = flame.made + (IF LabelsOf(flame, c) = {} THEN 1 ELSE 0)
                  /\ LabelsOf(flame, c) # {} =>
                       {l[2] : l \in LabelsOf(flame', c)} = {l[2] : l \in LabelsOf(flame, c)}]_vars

\* Three labels have been made, one was deleted, and a label that exists was
\* repositioned.
C39_Witness ==
  /\ flame.ev.op = "update_label" /\ flame.ev.y # 0
  /\ flame.made = 3 /\ Cardinality(flame.deleted) = 1
  /\ Cardinality(flame._labels) = 2

====
